---- MODULE Spec2Model ----
(***************************************************************************)
(* Model of the smartapp-sdk dispatcher (smartapp/dispatcher.py), of the   *)
(* parts of smartapp/interface.py and smartapp/converter.py it relies on,  *)
(* and of the properties stated about them.                                *)
(*                                                                         *)
(* Text values are sequences of one-character strings, so that lower(),    *)
(* strip(), str() and int() are computed rather than assumed.  None is a   *)
(* one-element sequence holding a token that is not a character.           *)
(***************************************************************************)
EXTENDS Integers, Sequences, FiniteSets, TLC

\* -------------------------------------------------------------------------
\* Bounds of the model
\* -------------------------------------------------------------------------

\* largest number of configuration pages in a definition
MaxPages == 3

\* -------------------------------------------------------------------------
\* Python values: None, text, str(int), int(str)
\* -------------------------------------------------------------------------

None == <<"None">>

NoneInt == [isNone |-> TRUE, val |-> 0]

SomeInt(n) == [isNone |-> FALSE, val |-> n]

DigitChars == <<"0", "1", "2", "3", "4", "5", "6", "7", "8", "9">>

IsDigit(c) == \E i \in 1..10 : DigitChars[i] = c

DigitValue(c) == (CHOOSE i \in 1..10 : DigitChars[i] = c) - 1

RECURSIVE NatToStr(_)
NatToStr(n) ==
    IF n < 10 THEN <<DigitChars[n + 1]>>
    ELSE NatToStr(n \div 10) \o <<DigitChars[(n % 10) + 1]>>

\* str(n) of a Python int
PyStr(n) == IF n < 0 THEN <<"-">> \o NatToStr(0 - n) ELSE NatToStr(n)

RECURSIVE DigitsToNat(_)
DigitsToNat(s) ==
    IF s = <<>> THEN 0
    ELSE 10 * DigitsToNat(SubSeq(s, 1, Len(s) - 1)) + DigitValue(s[Len(s)])

AllDigits(s) == s # <<>> /\ \A i \in 1..Len(s) : IsDigit(s[i])

IsWhitespace(c) == c \in {" ", "\t", "\n"}

RECURSIVE PyStrip(_)
PyStrip(s) ==
    IF s = <<>> THEN s
    ELSE IF IsWhitespace(s[1]) THEN PyStrip(Tail(s))
    ELSE IF IsWhitespace(s[Len(s)]) THEN PyStrip(SubSeq(s, 1, Len(s) - 1))
    ELSE s

\* int(s) of a Python str: surrounding whitespace and one sign are accepted
PyIntOk(s) ==
    LET t == PyStrip(s)
    IN  /\ t # <<>>
        /\ IF t[1] \in {"-", "+"} THEN AllDigits(Tail(t)) ELSE AllDigits(t)

PyInt(s) ==
    LET t == PyStrip(s)
    IN  IF t[1] = "-" THEN 0 - DigitsToNat(Tail(t))
        ELSE IF t[1] = "+" THEN DigitsToNat(Tail(t))
        ELSE DigitsToNat(t)

\* truthiness of an Optional[int]: None and 0 are false
TruthyInt(x) == ~x.isNone /\ x.val # 0

\* str(x) if x else None
StrOrNone(x) == IF TruthyInt(x) THEN PyStr(x.val) ELSE None

\* -------------------------------------------------------------------------
\* Exceptions: the classes dispatch() can see and their inheritance
\* -------------------------------------------------------------------------

SmartAppErrorKinds == {"SmartAppError", "InternalError", "BadRequestError", "SignatureError"}

ExceptionClasses ==
    SmartAppErrorKinds \cup
    {"Exception", "ValueError", "JSONDecodeError", "TypeError", "LookupError",
     "IndexError", "KeyError", "RuntimeError", "AttributeError"}

\* direct base class of each exception class
ExceptionBase(cls) ==
    CASE cls = "JSONDecodeError" -> "ValueError"
      [] cls = "IndexError" -> "LookupError"
      [] cls = "KeyError" -> "LookupError"
      [] cls \in {"InternalError", "BadRequestError", "SignatureError"} -> "SmartAppError"
      [] OTHER -> "Exception"

RECURSIVE IsInstance(_, _)
IsInstance(cls, base) ==
    IF cls = base THEN TRUE
    ELSE IF cls = "Exception" THEN FALSE
    ELSE IsInstance(ExceptionBase(cls), base)

Message(fmt, arg) == [fmt |-> fmt, arg |-> arg]

\* an exception that is not a SmartAppError has no correlation id attribute
PyException(cls, fmt, arg) == [cls |-> cls, message |-> Message(fmt, arg), correlation_id |-> None]

SmartAppError(kind, message, correlation_id) ==
    [cls |-> kind, message |-> message, correlation_id |-> correlation_id]

BadRequestError(message, correlation_id) == SmartAppError("BadRequestError", message, correlation_id)

InternalError(message, correlation_id) == SmartAppError("InternalError", message, correlation_id)

SignatureError(message, correlation_id) == SmartAppError("SignatureError", message, correlation_id)

\* outcome of a call: a returned value or a raised exception
Returns(v) == [ok |-> TRUE, value |-> v]

Raises(e) == [ok |-> FALSE, exc |-> e]

\* -------------------------------------------------------------------------
\* Python list indexing, as used on definition.config_pages
\* -------------------------------------------------------------------------

\* position (1-based) that seq[i] reads for a Python index i, or 0 for IndexError
PyListPos(seq, i) ==
    LET j == IF i < 0 THEN i + Len(seq) ELSE i
    IN  IF j < 0 \/ j >= Len(seq) THEN 0 ELSE j + 1

\* -------------------------------------------------------------------------
\* The static definition and the configuration manager
\* -------------------------------------------------------------------------

SmartAppConfigPage(i) ==
    [page_name |-> <<"p", "a", "g", "e">> \o PyStr(i),
     sections |-> <<[name |-> <<"s">> \o PyStr(i), settings |-> <<>>]>>]

RECURSIVE ConfigPagesOfLen(_)
ConfigPagesOfLen(n) ==
    IF n = 0 THEN <<>> ELSE Append(ConfigPagesOfLen(n - 1), SmartAppConfigPage(n))

\* an Optional[list]: None, or a list
NoneList == [isNone |-> TRUE, items |-> <<>>]

SomeList(items) == [isNone |-> FALSE, items |-> items]

\* config_pages is Optional: None, an empty list, or 1..MaxPages pages
ConfigPagesChoices == {NoneList} \cup {SomeList(ConfigPagesOfLen(n)) : n \in 0..MaxPages}

\* The attributes are not validated when the definition is constructed;
\* serializable tells whether json.dumps accepts every value it holds.
SmartAppDefinition(config_pages, serializable, target_url) ==
    [id |-> <<"i", "d">>,
     name |-> <<"n", "a", "m", "e">>,
     description |-> <<"d", "e", "s", "c">>,
     target_url |-> target_url,
     permissions |-> << <<"r", ":", "d">> >>,
     config_pages |-> config_pages,
     serializable |-> serializable]

TargetUrlChoices == { <<"u", "r", "l">>, <<"u", "r", "l", "2">> }

\* the definitions a dispatcher is constructed with
DefinitionChoices ==
    { SmartAppDefinition(p, s, u) : p \in ConfigPagesChoices, s \in BOOLEAN, u \in TargetUrlChoices }

\* `not definition.config_pages`: None and the empty list are both false
NoConfigPages(definition) ==
    definition.config_pages.isNone \/ definition.config_pages.items = <<>>

build_page_response(page_id, name, previous_page_id, next_page_id, complete, sections) ==
    [type |-> "ConfigurationPageResponse",
     configuration_data |->
        [page |-> [name |-> name,
                   page_id |-> PyStr(page_id),
                   previous_page_id |-> StrOrNone(previous_page_id),
                   next_page_id |-> StrOrNone(next_page_id),
                   complete |-> complete,
                   sections |-> sections]]]

build_init_response(id, name, description, permissions, first_page_id) ==
    [type |-> "ConfigurationInitResponse",
     configuration_data |->
        [initialize |-> [id |-> id,
                         name |-> name,
                         description |-> description,
                         permissions |-> permissions,
                         first_page_id |-> PyStr(first_page_id)]]]

\* variant: the pages are counted from 0
handle_initialize_zero(definition) ==
    Returns(build_init_response(definition.id, definition.name, definition.description,
                                definition.permissions, 0))

\* StaticConfigManager.handle_initialize
handle_initialize(definition) ==
    Returns(build_init_response(definition.id, definition.name, definition.description,
                                definition.permissions, 1))

\* variant: the last page is not recognised as the last one
handle_page_late_end(definition, page_id) ==
    IF NoConfigPages(definition)
    THEN Raises(PyException("ValueError",
                "Static configuration manager requires at least one configured page.", <<>>))
    ELSE
        LET pages == definition.config_pages.items
            previous_page_id == IF page_id = 1 THEN NoneInt ELSE SomeInt(page_id - 1)
            next_page_id == IF page_id > Len(pages) THEN NoneInt ELSE SomeInt(page_id + 1)
            complete == page_id > Len(pages)
            pos == PyListPos(pages, page_id - 1)
        IN  IF pos = 0
            THEN Raises(PyException("ValueError", "Page not found: %d", PyStr(page_id)))
            ELSE Returns(build_page_response(page_id, pages[pos].page_name, previous_page_id,
                                             next_page_id, complete, pages[pos].sections))

\* StaticConfigManager.handle_page
handle_page(definition, page_id) ==
    IF NoConfigPages(definition)
    THEN Raises(PyException("ValueError",
                "Static configuration manager requires at least one configured page.", <<>>))
    ELSE
        LET pages == definition.config_pages.items
            previous_page_id == IF page_id = 1 THEN NoneInt ELSE SomeInt(page_id - 1)
            next_page_id == IF page_id >= Len(pages) THEN NoneInt ELSE SomeInt(page_id + 1)
            complete == page_id >= Len(pages)
            pos == PyListPos(pages, page_id - 1)
        IN  IF pos = 0
            THEN Raises(PyException("ValueError", "Page not found: %d", PyStr(page_id)))
            ELSE Returns(build_page_response(page_id, pages[pos].page_name, previous_page_id,
                                             next_page_id, complete, pages[pos].sections))

\* -------------------------------------------------------------------------
\* SmartAppRequestContext
\* -------------------------------------------------------------------------

UpperChars == <<"A", "B", "C", "D", "E", "F", "G", "H", "I", "J", "K", "L", "M",
                "N", "O", "P", "Q", "R", "S", "T", "U", "V", "W", "X", "Y", "Z">>

LowerChars == <<"a", "b", "c", "d", "e", "f", "g", "h", "i", "j", "k", "l", "m",
                "n", "o", "p", "q", "r", "s", "t", "u", "v", "w", "x", "y", "z">>

LowerChar(c) ==
    IF \E i \in 1..26 : UpperChars[i] = c
    THEN LowerChars[CHOOSE i \in 1..26 : UpperChars[i] = c]
    ELSE c

\* str.lower()
PyLower(s) == [i \in 1..Len(s) |-> LowerChar(s[i])]

AUTHORIZATION_HEADER == <<"a", "u", "t", "h", "o", "r", "i", "z", "a", "t", "i", "o", "n">>

CORRELATION_ID_HEADER == <<"x", "-", "s", "t", "-", "c", "o", "r", "r", "e", "l", "a", "t", "i", "o", "n">>

DATE_HEADER == <<"d", "a", "t", "e">>

\* A mapping is a sequence of [key, value] items in insertion order.
Item(key, value) == [key |-> key, value |-> value]

HasKey(mapping, key) == \E i \in 1..Len(mapping) : mapping[i].key = key

\* the value stored last under the key (a later item replaces an earlier one)
Lookup(mapping, key) ==
    mapping[CHOOSE i \in 1..Len(mapping) :
                /\ mapping[i].key = key
                /\ \A j \in (i + 1)..Len(mapping) : mapping[j].key # key].value

\* SmartAppRequestContext._default_normalized
_default_normalized(headers) ==
    [i \in 1..Len(headers) |-> Item(PyLower(headers[i].key), headers[i].value)]

\* the name looked up as it is written
header_as_written(normalized, name) ==
    IF ~HasKey(normalized, name) THEN None
    ELSE LET value == Lookup(normalized, name)
         IN  IF value = None \/ value = <<>> \/ PyStrip(value) = <<>> THEN None ELSE value

\* SmartAppRequestContext.header, on the normalized mapping
header(normalized, name) ==
    IF ~HasKey(normalized, PyLower(name)) THEN None
    ELSE LET value == Lookup(normalized, PyLower(name))
         IN  IF value = None \/ value = <<>> \/ PyStrip(value) = <<>> THEN None ELSE value

SmartAppRequestContext(headers, body) ==
    LET normalized == _default_normalized(headers)
    IN  [headers |-> headers,
         body |-> body,
         normalized |-> normalized,
         correlation_id |-> header(normalized, CORRELATION_ID_HEADER),
         signature |-> header(normalized, AUTHORIZATION_HEADER),
         date |-> header(normalized, DATE_HEADER)]

\* -------------------------------------------------------------------------
\* Request headers offered to the dispatcher
\* -------------------------------------------------------------------------

CorrelationValue == <<"a", "b", "c", "1", "2", "3">>

SignatureValue == <<"s", "i", "g">>

DateValue == <<"n", "o", "w">>

CorrelationItems ==
    { <<>>,
      <<Item(<<"X", "-", "S", "T", "-", "C", "o", "r", "r", "e", "l", "a", "t", "i", "o", "n">>,
             CorrelationValue)>>,
      <<Item(CORRELATION_ID_HEADER, <<" ", "\t">>)>>,
      <<Item(<<"X", "-", "S", "T", "-", "C", "O", "R", "R", "E", "L", "A", "T", "I", "O", "N">>, <<>>)>> }

SignatureItems ==
    { <<>>,
      <<Item(<<"A", "u", "t", "h", "o", "r", "i", "z", "a", "t", "i", "o", "n">>, SignatureValue),
        Item(<<"D", "a", "t", "e">>, DateValue)>>,
      <<Item(AUTHORIZATION_HEADER, SignatureValue), Item(DATE_HEADER, None)>> }

HeaderChoices == { c \o g : c \in CorrelationItems, g \in SignatureItems }

\* -------------------------------------------------------------------------
\* Request bodies and CONVERTER.from_json(body, LifecycleRequest)
\* -------------------------------------------------------------------------

LifecyclePhase ==
    {"CONFIRMATION", "CONFIGURATION", "INSTALL", "UPDATE", "UNINSTALL", "OAUTH_CALLBACK", "EVENT"}

ConfigPhase == {"INITIALIZE", "PAGE"}

\* REQUEST_BY_PHASE
REQUEST_BY_PHASE(phase) ==
    CASE phase = "CONFIGURATION" -> "ConfigurationRequest"
      [] phase = "CONFIRMATION" -> "ConfirmationRequest"
      [] phase = "INSTALL" -> "InstallRequest"
      [] phase = "UPDATE" -> "UpdateRequest"
      [] phase = "UNINSTALL" -> "UninstallRequest"
      [] phase = "OAUTH_CALLBACK" -> "OauthCallbackRequest"
      [] phase = "EVENT" -> "EventRequest"

\* A body is text that json.loads rejects ("malformed"), a JSON document that
\* is not an object ("array"), or a JSON object.  Of an object the model keeps
\* the "lifecycle" member ("" when the key is missing), whether the remaining
\* members fit the fields of the request class, the configurationData
\* members phase and pageId, and the "valueType" member of the config values
\* the request carries ("" when the key is missing).
Body(json, lifecycle, wellformed, phase, page_id) ==
    [json |-> json, lifecycle |-> lifecycle, wellformed |-> wellformed,
     phase |-> phase, page_id |-> page_id, value_type |-> "STRING"]

ConfigValueType == {"DEVICE", "STRING"}

\* the same body with another valueType in its config values
WithValueType(body, value_type) == [body EXCEPT !.value_type = value_type]

\* the request classes with config values: ConfigRequestData.config and
\* InstalledApp.config
CarriesConfig(lifecycle) == lifecycle \in {"CONFIGURATION", "INSTALL", "UPDATE", "UNINSTALL", "EVENT"}

\* page ids sent by the caller: every integer around the page range, as str()
\* prints it, and text that int() accepts or rejects
PageIdChoices ==
    { PyStr(n) : n \in (0 - (MaxPages + 1))..(MaxPages + 2) }
    \cup { <<" ", "2", "\n">>, <<"+", "1">>, <<"x">>, <<>>, <<"1", ".", "0">> }

BodyChoices ==
    { Body("malformed", "", FALSE, "INITIALIZE", <<>>),
      Body("array", "", FALSE, "INITIALIZE", <<>>),
      Body("object", "", TRUE, "INITIALIZE", <<>>),
      Body("object", "BOGUS", TRUE, "INITIALIZE", <<>>) }
    \cup { Body("object", l, w, "INITIALIZE", <<>>) : l \in LifecyclePhase, w \in BOOLEAN }
    \cup { Body("object", "CONFIGURATION", TRUE, "PAGE", p) : p \in PageIdChoices }
    \cup { WithValueType(Body("object", l, TRUE, "INITIALIZE", <<>>), t) :
               l \in {"INSTALL", "OAUTH_CALLBACK"}, t \in {"DEVICE", "BOGUS", ""} }

NoRequest == [type |-> "None", lifecycle |-> "", phase |-> "", page_id |-> <<>>]

\* The outcomes of CONVERTER.from_json(body, LifecycleRequest): json.loads,
\* then SmartAppConverter._structure_request.  A member that does not fit the
\* request class fails inside the nested structure() call; cattrs reports it
\* either as the underlying KeyError, which _structure_request catches, or as
\* a validation error group, which it does not.  A config value with an
\* unknown valueType fails in _structure_config_value, nested in the request:
\* cattrs lets its ValueError through or wraps it in a validation error group.
from_json(body) ==
    IF body.json = "malformed"
    THEN {Raises(PyException("JSONDecodeError", "Expecting value", <<>>))}
    ELSE IF body.json # "object"
    THEN {Raises(PyException("TypeError", "list indices must be integers or slices, not str", <<>>))}
    ELSE IF body.lifecycle \notin LifecyclePhase
    THEN {Raises(PyException("ValueError", "Unknown lifecycle phase", <<>>))}
    ELSE IF ~body.wellformed
    THEN {Raises(PyException("ValueError", "Unknown lifecycle phase", <<>>)),
          Raises(PyException("Exception", "While structuring", <<>>))}
    ELSE IF CarriesConfig(body.lifecycle) /\ body.value_type \notin ConfigValueType
    THEN {Raises(PyException("ValueError", "Unknown config value type", <<>>)),
          Raises(PyException("Exception", "While structuring", <<>>))}
    ELSE {Returns([type |-> REQUEST_BY_PHASE(body.lifecycle),
                   lifecycle |-> body.lifecycle,
                   phase |-> body.phase,
                   page_id |-> body.page_id])}

\* -------------------------------------------------------------------------
\* SmartAppDispatcherConfig
\* -------------------------------------------------------------------------

\* default of clock_skew_sec
DefaultClockSkewSec == 300

SmartAppDispatcherConfig(check_signatures, clock_skew_sec) ==
    [check_signatures |-> check_signatures,
     clock_skew_sec |-> clock_skew_sec,
     log_json |-> FALSE]

ConfigChoices ==
    { SmartAppDispatcherConfig(c, k) : c \in BOOLEAN, k \in {NoneInt, SomeInt(DefaultClockSkewSec)} }

\* -------------------------------------------------------------------------
\* SignatureVerifier(context, config, definition).verify()
\* -------------------------------------------------------------------------

\* what the verifier finds outside the request: the distance in seconds between
\* the date header and the clock, whether the keyserver supplies the key, and
\* whether the signature matches the signed content
VerifyEnv(skew, key_found, signature_valid) ==
    [skew |-> skew, key_found |-> key_found, signature_valid |-> signature_valid]

VerifyEnvChoices ==
    { VerifyEnv(k, f, v) : k \in {0, DefaultClockSkewSec, DefaultClockSkewSec + 1},
                           f \in BOOLEAN, v \in BOOLEAN }

verify(context, config, env) ==
    IF context.signature = None \/ context.date = None
    THEN Raises(SignatureError(Message("Missing signature or date", <<>>), context.correlation_id))
    ELSE IF ~config.clock_skew_sec.isNone /\ env.skew > config.clock_skew_sec.val
    THEN Raises(SignatureError(Message("Request is not current", <<>>), context.correlation_id))
    ELSE IF ~env.key_found
    THEN Raises(SignatureError(Message("Key not available", <<>>), context.correlation_id))
    ELSE IF ~env.signature_valid
    THEN Raises(SignatureError(Message("Signature is not valid", <<>>), context.correlation_id))
    ELSE Returns(TRUE)

\* -------------------------------------------------------------------------
\* SmartAppEventHandler: the application's callbacks
\* -------------------------------------------------------------------------

\* variant: the INSTALL and UPDATE branches call each other's callback
HandlerFor_swapped(request) ==
    CASE request.type = "ConfirmationRequest" -> "handle_confirmation"
      [] request.type = "ConfigurationRequest" -> "handle_configuration"
      [] request.type = "InstallRequest" -> "handle_update"
      [] request.type = "UpdateRequest" -> "handle_install"
      [] request.type = "UninstallRequest" -> "handle_uninstall"
      [] request.type = "OauthCallbackRequest" -> "handle_oauth_callback"
      [] request.type = "EventRequest" -> "handle_event"

\* the callback _handle_request invokes for each request class
HandlerFor(request) ==
    CASE request.type = "ConfirmationRequest" -> "handle_confirmation"
      [] request.type = "ConfigurationRequest" -> "handle_configuration"
      [] request.type = "InstallRequest" -> "handle_install"
      [] request.type = "UpdateRequest" -> "handle_update"
      [] request.type = "UninstallRequest" -> "handle_uninstall"
      [] request.type = "OauthCallbackRequest" -> "handle_oauth_callback"
      [] request.type = "EventRequest" -> "handle_event"

\* the callback each lifecycle phase is documented to have
HandlerOfPhase(phase) ==
    CASE phase = "CONFIRMATION" -> "handle_confirmation"
      [] phase = "CONFIGURATION" -> "handle_configuration"
      [] phase = "INSTALL" -> "handle_install"
      [] phase = "UPDATE" -> "handle_update"
      [] phase = "UNINSTALL" -> "handle_uninstall"
      [] phase = "OAUTH_CALLBACK" -> "handle_oauth_callback"
      [] phase = "EVENT" -> "handle_event"

OtherCorrelationValue == <<"o", "w", "n">>

\* what a callback may do: return, or raise any exception, a SmartAppError of
\* its own making included (with no correlation id, or with one it chose)
HandlerOutcomes ==
    { Returns(TRUE),
      Raises(PyException("ValueError", "handler value error", <<>>)),
      Raises(PyException("RuntimeError", "handler failure", <<>>)),
      Raises(PyException("KeyError", "handler key error", <<>>)),
      Raises(SmartAppError("SmartAppError", Message("handler error", <<>>), None)),
      Raises(BadRequestError(Message("handler rejects", <<>>), None)),
      Raises(SignatureError(Message("handler signature", <<>>), OtherCorrelationValue)),
      Raises(InternalError(Message("handler internal", <<>>), None)) }

\* -------------------------------------------------------------------------
\* SmartAppDispatcher: building and encoding the response
\* -------------------------------------------------------------------------

EmptyDict == <<>>

_handle_confirmation_request(definition) ==
    Returns([type |-> "ConfirmationResponse", target_url |-> definition.target_url])

\* variant: a PAGE request is always answered with the first page
_handle_config_request_first(request, definition) ==
    IF request.phase = "INITIALIZE"
    THEN handle_initialize(definition)
    ELSE IF ~PyIntOk(request.page_id)
    THEN Raises(PyException("ValueError", "invalid literal for int() with base 10", request.page_id))
    ELSE handle_page(definition, 1)

\* SmartAppDispatcher._handle_config_request
_handle_config_request(request, definition) ==
    IF request.phase = "INITIALIZE"
    THEN handle_initialize(definition)
    ELSE IF ~PyIntOk(request.page_id)
    THEN Raises(PyException("ValueError", "invalid literal for int() with base 10", request.page_id))
    ELSE handle_page(definition, PyInt(request.page_id))

\* variant: the INSTALL branch returns the acknowledgment of UPDATE
BuildResponse_update(request, definition) ==
    CASE request.type = "ConfirmationRequest" -> _handle_confirmation_request(definition)
      [] request.type = "ConfigurationRequest" -> _handle_config_request(request, definition)
      [] request.type = "InstallRequest" ->
            Returns([type |-> "UpdateResponse", update_data |-> EmptyDict])
      [] request.type = "UpdateRequest" ->
            Returns([type |-> "UpdateResponse", update_data |-> EmptyDict])
      [] request.type = "UninstallRequest" ->
            Returns([type |-> "UninstallResponse", uninstall_data |-> EmptyDict])
      [] request.type = "OauthCallbackRequest" ->
            Returns([type |-> "OauthCallbackResponse", o_auth_callback_data |-> EmptyDict])
      [] request.type = "EventRequest" ->
            Returns([type |-> "EventResponse", event_data |-> EmptyDict])
      [] OTHER -> Raises(PyException("ValueError", "Unknown lifecycle event", <<>>))

\* the response _handle_request builds once the callback has returned
BuildResponse(request, definition) ==
    CASE request.type = "ConfirmationRequest" -> _handle_confirmation_request(definition)
      [] request.type = "ConfigurationRequest" -> _handle_config_request(request, definition)
      [] request.type = "InstallRequest" ->
            Returns([type |-> "InstallResponse", install_data |-> EmptyDict])
      [] request.type = "UpdateRequest" ->
            Returns([type |-> "UpdateResponse", update_data |-> EmptyDict])
      [] request.type = "UninstallRequest" ->
            Returns([type |-> "UninstallResponse", uninstall_data |-> EmptyDict])
      [] request.type = "OauthCallbackRequest" ->
            Returns([type |-> "OauthCallbackResponse", o_auth_callback_data |-> EmptyDict])
      [] request.type = "EventRequest" ->
            Returns([type |-> "EventResponse", event_data |-> EmptyDict])
      [] OTHER -> Raises(PyException("ValueError", "Unknown lifecycle event", <<>>))

\* the responses that carry data of the definition
CarriesDefinitionData(response) ==
    response.type \in {"ConfirmationResponse", "ConfigurationInitResponse", "ConfigurationPageResponse"}

\* the generic tree of a response, with the wire names of its fields
unstructure(response) ==
    CASE response.type = "ConfirmationResponse" -> [targetUrl |-> response.target_url]
      [] response.type = "ConfigurationInitResponse" ->
            LET init == response.configuration_data.initialize
            IN  [configurationData |->
                    [initialize |-> [id |-> init.id, name |-> init.name,
                                     description |-> init.description,
                                     permissions |-> init.permissions,
                                     firstPageId |-> init.first_page_id]]]
      [] response.type = "ConfigurationPageResponse" ->
            LET page == response.configuration_data.page
            IN  [configurationData |->
                    [page |-> [pageId |-> page.page_id, name |-> page.name,
                               previousPageId |-> page.previous_page_id,
                               nextPageId |-> page.next_page_id,
                               complete |-> page.complete,
                               sections |-> page.sections]]]
      [] response.type = "InstallResponse" -> [installData |-> response.install_data]
      [] response.type = "UpdateResponse" -> [updateData |-> response.update_data]
      [] response.type = "UninstallResponse" -> [uninstallData |-> response.uninstall_data]
      [] response.type = "OauthCallbackResponse" -> [oAuthCallbackData |-> response.o_auth_callback_data]
      [] response.type = "EventResponse" -> [eventData |-> response.event_data]

\* CONVERTER.to_json(response): json.dumps raises TypeError on a value it
\* cannot serialize, which only data taken from the definition can be
to_json(response, definition) ==
    IF CarriesDefinitionData(response) /\ ~definition.serializable
    THEN Raises(PyException("TypeError", "Object is not JSON serializable", <<>>))
    ELSE Returns([json |-> unstructure(response)])

\* variant: the last except clause leaves the correlation id out
dispatch_except_no_id(e, correlation_id) ==
    IF IsInstance(e.cls, "SmartAppError") THEN e
    ELSE IF IsInstance(e.cls, "JSONDecodeError")
    THEN BadRequestError(Message("Invalid JSON", <<>>), correlation_id)
    ELSE IF IsInstance(e.cls, "ValueError")
    THEN BadRequestError(e.message, correlation_id)
    ELSE InternalError(e.message, None)

\* variant: without the last except clause
dispatch_except_narrow(e, correlation_id) ==
    IF IsInstance(e.cls, "SmartAppError") THEN e
    ELSE IF IsInstance(e.cls, "JSONDecodeError")
    THEN BadRequestError(Message("Invalid JSON", <<>>), correlation_id)
    ELSE IF IsInstance(e.cls, "ValueError")
    THEN BadRequestError(e.message, correlation_id)
    ELSE e

\* variant: a SmartAppError is raised again with the id of the request
dispatch_except_stamped(e, correlation_id) ==
    IF IsInstance(e.cls, "SmartAppError") THEN [e EXCEPT !.correlation_id = correlation_id]
    ELSE IF IsInstance(e.cls, "JSONDecodeError")
    THEN BadRequestError(Message("Invalid JSON", <<>>), correlation_id)
    ELSE IF IsInstance(e.cls, "ValueError")
    THEN BadRequestError(e.message, correlation_id)
    ELSE InternalError(e.message, correlation_id)

\* the except clauses of dispatch(), in their order
dispatch_except(e, correlation_id) ==
    IF IsInstance(e.cls, "SmartAppError") THEN e
    ELSE IF IsInstance(e.cls, "JSONDecodeError")
    THEN BadRequestError(Message("Invalid JSON", <<>>), correlation_id)
    ELSE IF IsInstance(e.cls, "ValueError")
    THEN BadRequestError(e.message, correlation_id)
    ELSE InternalError(e.message, correlation_id)

\* -------------------------------------------------------------------------
\* converter.py: the timestamp codec
\* -------------------------------------------------------------------------

\* An Arrow timestamp: wall-clock fields and the UTC offset, in hours, of its
\* time zone
Arrow(year, month, day, hour, minute, second, microsecond, utcoffset) ==
    [year |-> year, month |-> month, day |-> day, hour |-> hour, minute |-> minute,
     second |-> second, microsecond |-> microsecond, utcoffset |-> utcoffset]

IsLeap(year) == (year % 4 = 0 /\ year % 100 # 0) \/ year % 400 = 0

DaysInMonth(year, month) ==
    IF month = 2 THEN (IF IsLeap(year) THEN 29 ELSE 28)
    ELSE IF month \in {4, 6, 9, 11} THEN 30 ELSE 31

PreviousDay(a) ==
    IF a.day > 1 THEN [a EXCEPT !.day = a.day - 1]
    ELSE IF a.month > 1
    THEN [a EXCEPT !.month = a.month - 1, !.day = DaysInMonth(a.year, a.month - 1)]
    ELSE [a EXCEPT !.year = a.year - 1, !.month = 12, !.day = 31]

NextDay(a) ==
    IF a.day < DaysInMonth(a.year, a.month) THEN [a EXCEPT !.day = a.day + 1]
    ELSE IF a.month < 12 THEN [a EXCEPT !.month = a.month + 1, !.day = 1]
    ELSE [a EXCEPT !.year = a.year + 1, !.month = 1, !.day = 1]

\* Arrow.to(tz): the same instant on the wall clock of another zone
ArrowTo(a, utcoffset) ==
    LET hour == a.hour + utcoffset - a.utcoffset
        b == [a EXCEPT !.utcoffset = utcoffset]
    IN  IF hour < 0 THEN [PreviousDay(b) EXCEPT !.hour = hour + 24]
        ELSE IF hour > 23 THEN [NextDay(b) EXCEPT !.hour = hour - 24]
        ELSE [b EXCEPT !.hour = hour]

\* Arrow.__eq__: two timestamps are equal when they are the same instant
ArrowEq(a, b) == ArrowTo(a, 0) = ArrowTo(b, 0)

\* format(n, "0<width>d")
RECURSIVE ZeroPad(_, _)
ZeroPad(s, width) == IF Len(s) >= width THEN s ELSE ZeroPad(<<"0">> \o s, width)

DATETIME_MS_FORMAT == <<"Y", "Y", "Y", "Y", "-", "M", "M", "-", "D", "D", "[", "T", "]", "H", "H", ":", "m", "m", ":", "s", "s", ".", "S", "S", "S", "[", "Z", "]">>

DATETIME_SEC_FORMAT == <<"Y", "Y", "Y", "Y", "-", "M", "M", "-", "D", "D", "[", "T", "]", "H", "H", ":", "m", "m", ":", "s", "s", "[", "Z", "]">>

DATETIME_MS_LEN == Len(<<"Y", "Y", "Y", "Y", "-", "M", "M", "-", "D", "D", "T", "H", "H", ":", "M", "M", ":", "S", "S", ".", "S", "S", "S", "Z">>)

DATETIME_SEC_LEN == Len(<<"Y", "Y", "Y", "Y", "-", "M", "M", "-", "D", "D", "T", "H", "H", ":", "M", "M", ":", "S", "S", "Z">>)

DATETIME_MS_EPOCH == <<"1", "9", "7", "0", "-", "0", "1", "-", "0", "1", "T", "0", "0", ":", "0", "0", ":", "0", "0", ".", "0", "0", "0", "Z">>

DATETIME_SEC_EPOCH == <<"1", "9", "7", "0", "-", "0", "1", "-", "0", "1", "T", "0", "0", ":", "0", "0", ":", "0", "0", "Z">>

\* what a string has to look like to match a format: d stands for a digit, any
\* other character for itself
FormatTemplate(format) ==
    IF format = DATETIME_MS_FORMAT THEN <<"d", "d", "d", "d", "-", "d", "d", "-", "d", "d", "T", "d", "d", ":", "d", "d", ":", "d", "d", ".", "d", "d", "d", "Z">>
    ELSE <<"d", "d", "d", "d", "-", "d", "d", "-", "d", "d", "T", "d", "d", ":", "d", "d", ":", "d", "d", "Z">>

MatchesFormat(s, format) ==
    LET t == FormatTemplate(format)
    IN  /\ Len(s) = Len(t)
        /\ \A i \in 1..Len(t) : IF t[i] = "d" THEN IsDigit(s[i]) ELSE s[i] = t[i]

\* Arrow.format(format), of a timestamp in UTC
ArrowFormat(a, format) ==
    ZeroPad(NatToStr(a.year), 4) \o <<"-">> \o ZeroPad(NatToStr(a.month), 2) \o <<"-">>
        \o ZeroPad(NatToStr(a.day), 2) \o <<"T">> \o ZeroPad(NatToStr(a.hour), 2) \o <<":">>
        \o ZeroPad(NatToStr(a.minute), 2) \o <<":">> \o ZeroPad(NatToStr(a.second), 2)
        \o (IF format = DATETIME_MS_FORMAT
            THEN <<".">> \o ZeroPad(NatToStr(a.microsecond \div 1000), 3)
            ELSE <<>>)
        \o <<"Z">>

\* arrow.get(s, format, tzinfo=UTC)
arrow_get(s, format) ==
    IF ~MatchesFormat(s, format)
    THEN Raises(PyException("ValueError", "Failed to match '%s' when parsing '%s'", s))
    ELSE LET a == Arrow(DigitsToNat(SubSeq(s, 1, 4)), DigitsToNat(SubSeq(s, 6, 7)),
                        DigitsToNat(SubSeq(s, 9, 10)), DigitsToNat(SubSeq(s, 12, 13)),
                        DigitsToNat(SubSeq(s, 15, 16)), DigitsToNat(SubSeq(s, 18, 19)),
                        IF format = DATETIME_MS_FORMAT
                        THEN 1000 * DigitsToNat(SubSeq(s, 21, 23)) ELSE 0,
                        0)
         IN  IF /\ a.year >= 1
                /\ a.month \in 1..12
                /\ a.day \in 1..DaysInMonth(a.year, a.month)
                /\ a.hour <= 23 /\ a.minute <= 59 /\ a.second <= 59
             THEN Returns(a)
             ELSE Raises(PyException("ValueError", "%s is out of range", s))

\* the branches taken by length first, the sentinels last
deserialize_datetime_by_length(datetime, now) ==
    IF Len(datetime) = DATETIME_MS_LEN THEN arrow_get(datetime, DATETIME_MS_FORMAT)
    ELSE IF Len(datetime) = DATETIME_SEC_LEN THEN arrow_get(datetime, DATETIME_SEC_FORMAT)
    ELSE IF datetime \in {DATETIME_MS_EPOCH, DATETIME_SEC_EPOCH} THEN Returns(now)
    ELSE Raises(PyException("ValueError", "Unknown datetime format: %s", datetime))

\* the time zone of the value kept, not converted to UTC
serialize_datetime_local(datetime) == ArrowFormat(datetime, DATETIME_MS_FORMAT)

\* Serialize an Arrow datetime to a string
serialize_datetime(datetime) == ArrowFormat(ArrowTo(datetime, 0), DATETIME_MS_FORMAT)

\* Deserialize a string into an Arrow datetime; now is what arrow_now() gives
deserialize_datetime(datetime, now) ==
    IF datetime \in {DATETIME_MS_EPOCH, DATETIME_SEC_EPOCH} THEN Returns(now)
    ELSE IF Len(datetime) = DATETIME_MS_LEN THEN arrow_get(datetime, DATETIME_MS_FORMAT)
    ELSE IF Len(datetime) = DATETIME_SEC_LEN THEN arrow_get(datetime, DATETIME_SEC_FORMAT)
    ELSE Raises(PyException("ValueError", "Unknown datetime format: %s", datetime))

\* timestamp strings a request can carry
DatetimeChoices ==
    { DATETIME_MS_EPOCH, DATETIME_SEC_EPOCH,
      <<"2", "0", "1", "7", "-", "0", "9", "-", "1", "3", "T", "0", "4", ":", "1", "8", ":", "1", "2", ".", "9", "9", "2", "Z">>, <<"2", "0", "1", "7", "-", "0", "9", "-", "1", "3", "T", "0", "4", ":", "1", "8", ":", "1", "2", "Z">>,
      <<"1", "9", "7", "0", "-", "0", "1", "-", "0", "1", "T", "0", "0", ":", "0", "0", ":", "0", "0", ".", "0", "0", "1", "Z">>, <<"2", "0", "1", "6", "-", "0", "2", "-", "2", "9", "T", "2", "3", ":", "5", "9", ":", "5", "9", "Z">>,
      <<"2", "0", "1", "7", "-", "1", "3", "-", "1", "3", "T", "0", "4", ":", "1", "8", ":", "1", "2", "Z">>, <<"2", "0", "1", "7", "-", "0", "9", "-", "1", "3", " ", "0", "4", ":", "1", "8", ":", "1", "2", ".", "9", "9", "2", "Z">>,
      <<"2", "0", "1", "7", "-", "0", "9", "-", "1", "3", "T", "0", "4", ":", "1", "8", ":", "1", "2", ".", "9", "9", "Z">>, <<"2", "0", "1", "7", "-", "0", "9", "-", "1", "3", "T", "0", "4", ":", "1", "8", ":", "1", "2", "+", "0", "0", ":", "0", "0">>,
      <<"2", "0", "1", "7", "-", "0", "9", "-", "1", "3">>, <<>> }

\* timestamps an application can put into an Event
ArrowChoices ==
    { Arrow(1970, 1, 1, 0, 0, 0, 0, 0),
      Arrow(1969, 12, 31, 19, 0, 0, 0, 0 - 5),
      Arrow(1970, 1, 1, 0, 0, 0, 1000, 0),
      Arrow(2017, 9, 13, 4, 18, 12, 992000, 0),
      Arrow(2017, 9, 13, 4, 18, 12, 992500, 0),
      Arrow(2017, 9, 13, 4, 18, 12, 0, 0),
      Arrow(2017, 9, 12, 23, 18, 12, 469000, 0 - 5),
      Arrow(2016, 12, 31, 23, 30, 0, 0, 0 - 1),
      Arrow(2016, 2, 29, 23, 0, 0, 5000, 0 - 2),
      Arrow(2017, 3, 1, 0, 30, 0, 0, 1) }

\* what arrow_now() gives at successive moments, in the local time zone
NowChoices ==
    << Arrow(2026, 11, 3, 8, 0, 0, 123456, 0),
       Arrow(2026, 11, 3, 3, 0, 1, 0, 0 - 5),
       Arrow(2026, 11, 3, 8, 0, 2, 500000, 0) >>

\* -------------------------------------------------------------------------
\* converter.py: attrs classes to and from JSON and YAML documents
\* -------------------------------------------------------------------------

IsLetter(c) == \E i \in 1..26 : UpperChars[i] = c \/ LowerChars[i] = c

UpperChar(c) ==
    IF \E i \in 1..26 : LowerChars[i] = c
    THEN UpperChars[CHOOSE i \in 1..26 : LowerChars[i] = c]
    ELSE c

\* str.title(): a letter is upper case at the start and after a character
\* that is not a letter, lower case elsewhere
PyTitle(s) ==
    [i \in 1..Len(s) |->
        IF i = 1 \/ ~IsLetter(s[i - 1]) THEN UpperChar(s[i]) ELSE LowerChar(s[i])]

\* str.split("_")
RECURSIVE PySplit(_)
PySplit(s) ==
    IF \A i \in 1..Len(s) : s[i] # "_" THEN <<s>>
    ELSE LET i == CHOOSE j \in 1..Len(s) : s[j] = "_" /\ \A k \in 1..(j - 1) : s[k] # "_"
         IN  <<SubSeq(s, 1, i - 1)>> \o PySplit(SubSeq(s, i + 1, Len(s)))

\* "".join(parts)
RECURSIVE PyJoin(_)
PyJoin(parts) == IF parts = <<>> THEN <<>> ELSE Head(parts) \o PyJoin(Tail(parts))

\* the components joined as they are, none capitalised
_to_camel_case_untitled(name) == PyJoin(PySplit(name))

\* variant: only the first component of the name is kept
_to_camel_case_head(name) == PySplit(name)[1]

\* StandardConverter._to_camel_case
_to_camel_case(name) ==
    LET components == PySplit(name)
    IN  components[1] \o PyJoin([i \in 1..(Len(components) - 1) |-> PyTitle(components[i + 1])])

ConfigSettingType ==
    {"DEVICE", "TEXT", "BOOLEAN", "ENUM", "LINK", "PAGE", "IMAGE", "ICON",
     "TIME", "PARAGRAPH", "EMAIL", "DECIMAL", "NUMBER", "PHONE", "OAUTH"}

\* CONFIG_VALUE_BY_TYPE
CONFIG_VALUE_BY_TYPE(value_type) ==
    CASE value_type = "DEVICE" -> "DeviceConfigValue"
      [] value_type = "STRING" -> "StringConfigValue"

\* CONFIG_SETTING_BY_TYPE
CONFIG_SETTING_BY_TYPE(type) ==
    CASE type = "DEVICE" -> "DeviceSetting"
      [] type = "TEXT" -> "TextSetting"
      [] type = "BOOLEAN" -> "BooleanSetting"
      [] type = "ENUM" -> "EnumSetting"
      [] type = "LINK" -> "LinkSetting"
      [] type = "PAGE" -> "PageSetting"
      [] type = "IMAGE" -> "ImageSetting"
      [] type = "ICON" -> "IconSetting"
      [] type = "TIME" -> "TimeSetting"
      [] type = "PARAGRAPH" -> "ParagraphSetting"
      [] type = "EMAIL" -> "EmailSetting"
      [] type = "DECIMAL" -> "DecimalSetting"
      [] type = "NUMBER" -> "NumberSetting"
      [] type = "PHONE" -> "PhoneSetting"
      [] type = "OAUTH" -> "OauthSetting"

\* the attributes of each attrs class, inherited ones first
Attributes(cls) ==
    CASE cls = "ConfirmationRequest" ->
           <<<<"l", "i", "f", "e", "c", "y", "c", "l", "e">>, <<"e", "x", "e", "c", "u", "t", "i", "o", "n", "_", "i", "d">>, <<"l", "o", "c", "a", "l", "e">>, <<"v", "e", "r", "s", "i", "o", "n">>, <<"a", "p", "p", "_", "i", "d">>, <<"c", "o", "n", "f", "i", "r", "m", "a", "t", "i", "o", "n", "_", "d", "a", "t", "a">>, <<"s", "e", "t", "t", "i", "n", "g", "s">>>>
      [] cls = "ConfigurationRequest" ->
           <<<<"l", "i", "f", "e", "c", "y", "c", "l", "e">>, <<"e", "x", "e", "c", "u", "t", "i", "o", "n", "_", "i", "d">>, <<"l", "o", "c", "a", "l", "e">>, <<"v", "e", "r", "s", "i", "o", "n">>, <<"c", "o", "n", "f", "i", "g", "u", "r", "a", "t", "i", "o", "n", "_", "d", "a", "t", "a">>, <<"s", "e", "t", "t", "i", "n", "g", "s">>>>
      [] cls = "InstallRequest" ->
           <<<<"l", "i", "f", "e", "c", "y", "c", "l", "e">>, <<"e", "x", "e", "c", "u", "t", "i", "o", "n", "_", "i", "d">>, <<"l", "o", "c", "a", "l", "e">>, <<"v", "e", "r", "s", "i", "o", "n">>, <<"i", "n", "s", "t", "a", "l", "l", "_", "d", "a", "t", "a">>, <<"s", "e", "t", "t", "i", "n", "g", "s">>>>
      [] cls = "UpdateRequest" ->
           <<<<"l", "i", "f", "e", "c", "y", "c", "l", "e">>, <<"e", "x", "e", "c", "u", "t", "i", "o", "n", "_", "i", "d">>, <<"l", "o", "c", "a", "l", "e">>, <<"v", "e", "r", "s", "i", "o", "n">>, <<"u", "p", "d", "a", "t", "e", "_", "d", "a", "t", "a">>, <<"s", "e", "t", "t", "i", "n", "g", "s">>>>
      [] cls = "UninstallRequest" ->
           <<<<"l", "i", "f", "e", "c", "y", "c", "l", "e">>, <<"e", "x", "e", "c", "u", "t", "i", "o", "n", "_", "i", "d">>, <<"l", "o", "c", "a", "l", "e">>, <<"v", "e", "r", "s", "i", "o", "n">>, <<"u", "n", "i", "n", "s", "t", "a", "l", "l", "_", "d", "a", "t", "a">>, <<"s", "e", "t", "t", "i", "n", "g", "s">>>>
      [] cls = "OauthCallbackRequest" ->
           <<<<"l", "i", "f", "e", "c", "y", "c", "l", "e">>, <<"e", "x", "e", "c", "u", "t", "i", "o", "n", "_", "i", "d">>, <<"l", "o", "c", "a", "l", "e">>, <<"v", "e", "r", "s", "i", "o", "n">>, <<"o", "_", "a", "u", "t", "h", "_", "c", "a", "l", "l", "b", "a", "c", "k", "_", "d", "a", "t", "a">>>>
      [] cls = "EventRequest" ->
           <<<<"l", "i", "f", "e", "c", "y", "c", "l", "e">>, <<"e", "x", "e", "c", "u", "t", "i", "o", "n", "_", "i", "d">>, <<"l", "o", "c", "a", "l", "e">>, <<"v", "e", "r", "s", "i", "o", "n">>, <<"e", "v", "e", "n", "t", "_", "d", "a", "t", "a">>, <<"s", "e", "t", "t", "i", "n", "g", "s">>>>
      [] cls = "DeviceConfigValue" ->
           <<<<"d", "e", "v", "i", "c", "e", "_", "c", "o", "n", "f", "i", "g">>, <<"v", "a", "l", "u", "e", "_", "t", "y", "p", "e">>>>
      [] cls = "StringConfigValue" ->
           <<<<"s", "t", "r", "i", "n", "g", "_", "c", "o", "n", "f", "i", "g">>, <<"v", "a", "l", "u", "e", "_", "t", "y", "p", "e">>>>
      [] cls = "DeviceSetting" ->
           <<<<"i", "d">>, <<"n", "a", "m", "e">>, <<"d", "e", "s", "c", "r", "i", "p", "t", "i", "o", "n">>, <<"r", "e", "q", "u", "i", "r", "e", "d">>, <<"t", "y", "p", "e">>, <<"m", "u", "l", "t", "i", "p", "l", "e">>, <<"c", "a", "p", "a", "b", "i", "l", "i", "t", "i", "e", "s">>, <<"p", "e", "r", "m", "i", "s", "s", "i", "o", "n", "s">>>>
      [] cls = "TextSetting" ->
           <<<<"i", "d">>, <<"n", "a", "m", "e">>, <<"d", "e", "s", "c", "r", "i", "p", "t", "i", "o", "n">>, <<"r", "e", "q", "u", "i", "r", "e", "d">>, <<"t", "y", "p", "e">>, <<"d", "e", "f", "a", "u", "l", "t", "_", "v", "a", "l", "u", "e">>>>
      [] cls = "BooleanSetting" ->
           <<<<"i", "d">>, <<"n", "a", "m", "e">>, <<"d", "e", "s", "c", "r", "i", "p", "t", "i", "o", "n">>, <<"r", "e", "q", "u", "i", "r", "e", "d">>, <<"t", "y", "p", "e">>, <<"d", "e", "f", "a", "u", "l", "t", "_", "v", "a", "l", "u", "e">>>>
      [] cls = "EnumSetting" ->
           <<<<"i", "d">>, <<"n", "a", "m", "e">>, <<"d", "e", "s", "c", "r", "i", "p", "t", "i", "o", "n">>, <<"r", "e", "q", "u", "i", "r", "e", "d">>, <<"t", "y", "p", "e">>, <<"m", "u", "l", "t", "i", "p", "l", "e">>, <<"o", "p", "t", "i", "o", "n", "s">>, <<"g", "r", "o", "u", "p", "e", "d", "_", "o", "p", "t", "i", "o", "n", "s">>>>
      [] cls = "LinkSetting" ->
           <<<<"i", "d">>, <<"n", "a", "m", "e">>, <<"d", "e", "s", "c", "r", "i", "p", "t", "i", "o", "n">>, <<"r", "e", "q", "u", "i", "r", "e", "d">>, <<"t", "y", "p", "e">>, <<"u", "r", "l">>, <<"i", "m", "a", "g", "e">>>>
      [] cls = "PageSetting" ->
           <<<<"i", "d">>, <<"n", "a", "m", "e">>, <<"d", "e", "s", "c", "r", "i", "p", "t", "i", "o", "n">>, <<"r", "e", "q", "u", "i", "r", "e", "d">>, <<"t", "y", "p", "e">>, <<"p", "a", "g", "e">>, <<"i", "m", "a", "g", "e">>>>
      [] cls = "ImageSetting" ->
           <<<<"i", "d">>, <<"n", "a", "m", "e">>, <<"d", "e", "s", "c", "r", "i", "p", "t", "i", "o", "n">>, <<"r", "e", "q", "u", "i", "r", "e", "d">>, <<"t", "y", "p", "e">>, <<"i", "m", "a", "g", "e">>>>
      [] cls = "IconSetting" ->
           <<<<"i", "d">>, <<"n", "a", "m", "e">>, <<"d", "e", "s", "c", "r", "i", "p", "t", "i", "o", "n">>, <<"r", "e", "q", "u", "i", "r", "e", "d">>, <<"t", "y", "p", "e">>, <<"i", "m", "a", "g", "e">>>>
      [] cls = "TimeSetting" ->
           <<<<"i", "d">>, <<"n", "a", "m", "e">>, <<"d", "e", "s", "c", "r", "i", "p", "t", "i", "o", "n">>, <<"r", "e", "q", "u", "i", "r", "e", "d">>, <<"t", "y", "p", "e">>>>
      [] cls = "ParagraphSetting" ->
           <<<<"i", "d">>, <<"n", "a", "m", "e">>, <<"d", "e", "s", "c", "r", "i", "p", "t", "i", "o", "n">>, <<"r", "e", "q", "u", "i", "r", "e", "d">>, <<"t", "y", "p", "e">>, <<"d", "e", "f", "a", "u", "l", "t", "_", "v", "a", "l", "u", "e">>>>
      [] cls = "EmailSetting" ->
           <<<<"i", "d">>, <<"n", "a", "m", "e">>, <<"d", "e", "s", "c", "r", "i", "p", "t", "i", "o", "n">>, <<"r", "e", "q", "u", "i", "r", "e", "d">>, <<"t", "y", "p", "e">>>>
      [] cls = "DecimalSetting" ->
           <<<<"i", "d">>, <<"n", "a", "m", "e">>, <<"d", "e", "s", "c", "r", "i", "p", "t", "i", "o", "n">>, <<"r", "e", "q", "u", "i", "r", "e", "d">>, <<"t", "y", "p", "e">>>>
      [] cls = "NumberSetting" ->
           <<<<"i", "d">>, <<"n", "a", "m", "e">>, <<"d", "e", "s", "c", "r", "i", "p", "t", "i", "o", "n">>, <<"r", "e", "q", "u", "i", "r", "e", "d">>, <<"t", "y", "p", "e">>>>
      [] cls = "PhoneSetting" ->
           <<<<"i", "d">>, <<"n", "a", "m", "e">>, <<"d", "e", "s", "c", "r", "i", "p", "t", "i", "o", "n">>, <<"r", "e", "q", "u", "i", "r", "e", "d">>, <<"t", "y", "p", "e">>>>
      [] cls = "OauthSetting" ->
           <<<<"i", "d">>, <<"n", "a", "m", "e">>, <<"d", "e", "s", "c", "r", "i", "p", "t", "i", "o", "n">>, <<"r", "e", "q", "u", "i", "r", "e", "d">>, <<"t", "y", "p", "e">>, <<"b", "r", "o", "w", "s", "e", "r">>, <<"u", "r", "l", "_", "t", "e", "m", "p", "l", "a", "t", "e">>>>

\* the attribute that holds the discriminator of a class
DiscriminatorAttribute(cls) ==
    IF cls \in {REQUEST_BY_PHASE(p) : p \in LifecyclePhase} THEN <<"l", "i", "f", "e", "c", "y", "c", "l", "e">>
    ELSE IF cls \in {CONFIG_VALUE_BY_TYPE(t) : t \in ConfigValueType} THEN <<"v", "a", "l", "u", "e", "_", "t", "y", "p", "e">>
    ELSE <<"t", "y", "p", "e">>

\* the members of the enumeration a class takes its discriminator from
DiscriminatorType(cls) ==
    IF cls \in {REQUEST_BY_PHASE(p) : p \in LifecyclePhase} THEN LifecyclePhase
    ELSE IF cls \in {CONFIG_VALUE_BY_TYPE(t) : t \in ConfigValueType} THEN ConfigValueType
    ELSE ConfigSettingType

\* the attributes with a default: a document may leave them out
Defaulted(cls) ==
    {<<"r", "e", "q", "u", "i", "r", "e", "d">>, <<"t", "y", "p", "e">>, <<"v", "a", "l", "u", "e", "_", "t", "y", "p", "e">>, <<"s", "e", "t", "t", "i", "n", "g", "s">>, <<"o", "p", "t", "i", "o", "n", "s">>, <<"g", "r", "o", "u", "p", "e", "d", "_", "o", "p", "t", "i", "o", "n", "s">>}

\* the discriminator a class gives itself when none is passed
DefaultDiscriminator(cls) ==
    IF \E t \in ConfigValueType : CONFIG_VALUE_BY_TYPE(t) = cls
    THEN CHOOSE t \in ConfigValueType : CONFIG_VALUE_BY_TYPE(t) = cls
    ELSE CHOOSE t \in ConfigSettingType : CONFIG_SETTING_BY_TYPE(t) = cls

\* An instance of a class of one of the three unions: its class, the value
\* of its discriminator attribute and, of an EventRequest, the event_time of
\* the event it carries (None in every other class).  The other attributes
\* are the same in every instance.
NoTime == [isNone |-> TRUE]

SomeTime(a) == [isNone |-> FALSE, val |-> a]

Variant(cls, tag, event_time) == [cls |-> cls, tag |-> tag, event_time |-> event_time]

\* the union a class belongs to
UnionOf(cls) ==
    IF cls \in {REQUEST_BY_PHASE(p) : p \in LifecyclePhase} THEN "LifecycleRequest"
    ELSE IF cls \in {CONFIG_VALUE_BY_TYPE(t) : t \in ConfigValueType} THEN "ConfigValue"
    ELSE "ConfigSetting"

\* attrs equality: the same class and equal attributes; Arrow compares instants
VariantEq(x, y) ==
    /\ x.cls = y.cls
    /\ x.tag = y.tag
    /\ x.event_time.isNone = y.event_time.isNone
    /\ ~x.event_time.isNone => ArrowEq(x.event_time.val, y.event_time.val)

\* the unstructured Event inside eventData
UnstructuredEvent(event_time) ==
    <<Item(_to_camel_case(<<"e", "v", "e", "n", "t", "_", "t", "i", "m", "e">>),
           IF event_time.isNone THEN [isNone |-> TRUE]
           ELSE [isNone |-> FALSE, text |-> serialize_datetime(event_time.val)])>>

\* unstructure(obj): one member per attribute, under its camelCase name; an
\* enumeration member becomes its value and an Arrow its serialized text
unstructure_attrs(x) ==
    LET attributes == Attributes(x.cls)
    IN  [i \in 1..Len(attributes) |->
            Item(_to_camel_case(attributes[i]),
                 IF attributes[i] = DiscriminatorAttribute(x.cls) THEN x.tag
                 ELSE IF attributes[i] = <<"e", "v", "e", "n", "t", "_", "d", "a", "t", "a">> THEN UnstructuredEvent(x.event_time)
                 ELSE "v")]

\* how a failure inside the structuring of a class comes out: as it is, or
\* collected into a validation error group (cattrs detailed validation)
StructureFailure(e, detailed) ==
    IF detailed THEN Raises(PyException("Exception", "While structuring", <<>>)) ELSE Raises(e)

\* the event_time of the Event inside eventData
StructuredEventTime(data, now) ==
    LET event == Lookup(data, _to_camel_case(<<"e", "v", "e", "n", "t", "_", "d", "a", "t", "a">>))
        key == _to_camel_case(<<"e", "v", "e", "n", "t", "_", "t", "i", "m", "e">>)
    IN  IF ~HasKey(event, key) \/ Lookup(event, key).isNone THEN Returns(NoTime)
        ELSE LET r == deserialize_datetime(Lookup(event, key).text, now)
             IN  IF r.ok THEN Returns(SomeTime(r.value)) ELSE r

\* structure(data, cls) of an attrs class: every attribute is read under its
\* camelCase name; one without a default has to be there
structure_attrs(data, cls, now, detailed) ==
    LET attributes == Attributes(cls)
        key == _to_camel_case(DiscriminatorAttribute(cls))
        tag == IF HasKey(data, key) THEN Lookup(data, key) ELSE DefaultDiscriminator(cls)
        time == IF cls = "EventRequest" THEN StructuredEventTime(data, now) ELSE Returns(NoTime)
    IN  IF \E i \in 1..Len(attributes) :
               /\ attributes[i] \notin Defaulted(cls)
               /\ ~HasKey(data, _to_camel_case(attributes[i]))
        THEN StructureFailure(PyException("KeyError", "missing key", <<>>), detailed)
        ELSE IF tag \notin DiscriminatorType(cls)
        THEN StructureFailure(PyException("ValueError", "not a valid member", <<>>), detailed)
        ELSE IF ~time.ok
        THEN StructureFailure(time.exc, detailed)
        ELSE Returns(Variant(cls, tag, time.value))

\* except KeyError as e: raise ValueError(message) from e
KeyErrorAs(r, message) ==
    IF ~r.ok /\ IsInstance(r.exc.cls, "KeyError")
    THEN Raises(PyException("ValueError", message, <<>>))
    ELSE r

\* variant: a document without valueType is read as a device config value
_structure_config_value_defaulting(data, now, detailed) ==
    IF ~HasKey(data, <<"v", "a", "l", "u", "e", "T", "y", "p", "e">>)
    THEN KeyErrorAs(structure_attrs(data, "DeviceConfigValue", now, detailed), "Unknown config value type")
    ELSE IF Lookup(data, <<"v", "a", "l", "u", "e", "T", "y", "p", "e">>) \notin ConfigValueType
    THEN Raises(PyException("ValueError", "Unknown config value type", <<>>))
    ELSE KeyErrorAs(structure_attrs(data, CONFIG_VALUE_BY_TYPE(Lookup(data, <<"v", "a", "l", "u", "e", "T", "y", "p", "e">>)), now, detailed),
                    "Unknown config value type")

\* SmartAppConverter._structure_config_value
_structure_config_value(data, now, detailed) ==
    IF ~HasKey(data, <<"v", "a", "l", "u", "e", "T", "y", "p", "e">>) \/ Lookup(data, <<"v", "a", "l", "u", "e", "T", "y", "p", "e">>) \notin ConfigValueType
    THEN Raises(PyException("ValueError", "Unknown config value type", <<>>))
    ELSE KeyErrorAs(structure_attrs(data, CONFIG_VALUE_BY_TYPE(Lookup(data, <<"v", "a", "l", "u", "e", "T", "y", "p", "e">>)), now, detailed),
                    "Unknown config value type")

\* SmartAppConverter._structure_config_setting
_structure_config_setting(data, now, detailed) ==
    IF ~HasKey(data, <<"t", "y", "p", "e">>) \/ Lookup(data, <<"t", "y", "p", "e">>) \notin ConfigSettingType
    THEN Raises(PyException("ValueError", "Unknown config setting type", <<>>))
    ELSE KeyErrorAs(structure_attrs(data, CONFIG_SETTING_BY_TYPE(Lookup(data, <<"t", "y", "p", "e">>)), now, detailed),
                    "Unknown config setting type")

\* SmartAppConverter._structure_request
_structure_request(data, now, detailed) ==
    IF ~HasKey(data, <<"l", "i", "f", "e", "c", "y", "c", "l", "e">>) \/ Lookup(data, <<"l", "i", "f", "e", "c", "y", "c", "l", "e">>) \notin LifecyclePhase
    THEN Raises(PyException("ValueError", "Unknown lifecycle phase", <<>>))
    ELSE KeyErrorAs(structure_attrs(data, REQUEST_BY_PHASE(Lookup(data, <<"l", "i", "f", "e", "c", "y", "c", "l", "e">>)), now, detailed),
                    "Unknown lifecycle phase")

\* structure(data, cls) of one of the unions: the hook registered for it
structure(data, union, now, detailed) ==
    CASE union = "LifecycleRequest" -> _structure_request(data, now, detailed)
      [] union = "ConfigValue" -> _structure_config_value(data, now, detailed)
      [] union = "ConfigSetting" -> _structure_config_setting(data, now, detailed)

TextFormats == {"json", "yaml"}

\* to_json and to_yaml: the unstructured object written as text
to_text(format, obj) == [format |-> format, document |-> unstructure_attrs(obj)]

\* from_json and from_yaml: the text read back, then structured
from_text(format, text, union, now, detailed) == structure(text.document, union, now, detailed)

\* the key of the discriminator in a document of each union
DiscriminatorKey(union) ==
    CASE union = "LifecycleRequest" -> <<"l", "i", "f", "e", "c", "y", "c", "l", "e">>
      [] union = "ConfigValue" -> <<"v", "a", "l", "u", "e", "T", "y", "p", "e">>
      [] union = "ConfigSetting" -> <<"t", "y", "p", "e">>

\* what a sender may have done to the discriminator of a document
Tampering == {"none", "missing", "unknown"}

\* the document with its discriminator left out, or replaced by a value that
\* is no member of the enumeration
Tampered(document, key, tampering) ==
    CASE tampering = "none" -> document
      [] tampering = "missing" -> SelectSeq(document, LAMBDA item : item.key # key)
      [] tampering = "unknown" ->
            [i \in 1..Len(document) |->
                IF document[i].key = key THEN Item(key, "BOGUS") ELSE document[i]]

\* instances of every class of the three unions, each with the discriminator
\* its class declares, an EventRequest with every timestamp
RegisteredVariants ==
    { Variant(REQUEST_BY_PHASE(p), p, NoTime) : p \in LifecyclePhase }
    \cup { Variant("EventRequest", "EVENT", SomeTime(a)) : a \in ArrowChoices }
    \cup { Variant(CONFIG_VALUE_BY_TYPE(t), t, NoTime) : t \in ConfigValueType }
    \cup { Variant(CONFIG_SETTING_BY_TYPE(t), t, NoTime) : t \in ConfigSettingType }

\* instances constructed with the discriminator of another class
MismatchedVariants ==
    { Variant("InstallRequest", "UPDATE", NoTime),
      Variant("DeviceConfigValue", "STRING", NoTime),
      Variant("TimeSetting", "EMAIL", NoTime) }

VariantChoices == RegisteredVariants \cup MismatchedVariants

\* -------------------------------------------------------------------------
\* interface.py: Event and EventData
\* -------------------------------------------------------------------------

\* the events in one EventData
MaxEvents == 2

EventType ==
    {"DEVICE_COMMANDS_EVENT",
     "DEVICE_EVENT",
     "DEVICE_HEALTH_EVENT",
     "DEVICE_LIFECYCLE_EVENT",
     "HUB_HEALTH_EVENT",
     "INSTALLED_APP_LIFECYCLE_EVENT",
     "MODE_EVENT",
     "SCENE_LIFECYCLE_EVENT",
     "SECURITY_ARM_STATE_EVENT",
     "TIMER_EVENT",
     "WEATHER_EVENT"}

\* the attributes of Event that hold the payload of an event, as declared
EventAttributes ==
    <<"device_event",
      "device_lifecycle_event",
      "device_health_event",
      "device_commands_event",
      "mode_event",
      "timer_event",
      "scene_lifecycle_event",
      "security_arm_state_event",
      "hub_health_event",
      "installed_app_lifecycle_event",
      "weather_event">>

\* a payload attribute is None or a dict
NoPayload == [isNone |-> TRUE]

Payload(items) == [isNone |-> FALSE, items |-> items]

\* Event(event_type=..., <attribute>=payload): every other attribute is None
Event(event_type, attribute, payload) ==
    [a \in {EventAttributes[i] : i \in 1..Len(EventAttributes)} \cup {"event_type"} |->
        IF a = "event_type" THEN event_type
        ELSE IF a = attribute THEN payload
        ELSE NoPayload]

\* variant: the branches of two event types exchanged
Event_for_type_crossed(event, event_type) ==
    IF event_type = "DEVICE_COMMANDS_EVENT" THEN event.device_commands_event
    ELSE IF event_type = "DEVICE_EVENT" THEN event.device_event
    ELSE IF event_type = "DEVICE_HEALTH_EVENT" THEN event.device_health_event
    ELSE IF event_type = "DEVICE_LIFECYCLE_EVENT" THEN event.device_lifecycle_event
    ELSE IF event_type = "HUB_HEALTH_EVENT" THEN event.hub_health_event
    ELSE IF event_type = "INSTALLED_APP_LIFECYCLE_EVENT" THEN event.installed_app_lifecycle_event
    ELSE IF event_type = "MODE_EVENT" THEN event.timer_event
    ELSE IF event_type = "SCENE_LIFECYCLE_EVENT" THEN event.scene_lifecycle_event
    ELSE IF event_type = "SECURITY_ARM_STATE_EVENT" THEN event.security_arm_state_event
    ELSE IF event_type = "TIMER_EVENT" THEN event.mode_event
    ELSE IF event_type = "WEATHER_EVENT" THEN event.weather_event
    ELSE NoPayload

\* Event.for_type
Event_for_type(event, event_type) ==
    IF event_type = "DEVICE_COMMANDS_EVENT" THEN event.device_commands_event
    ELSE IF event_type = "DEVICE_EVENT" THEN event.device_event
    ELSE IF event_type = "DEVICE_HEALTH_EVENT" THEN event.device_health_event
    ELSE IF event_type = "DEVICE_LIFECYCLE_EVENT" THEN event.device_lifecycle_event
    ELSE IF event_type = "HUB_HEALTH_EVENT" THEN event.hub_health_event
    ELSE IF event_type = "INSTALLED_APP_LIFECYCLE_EVENT" THEN event.installed_app_lifecycle_event
    ELSE IF event_type = "MODE_EVENT" THEN event.mode_event
    ELSE IF event_type = "SCENE_LIFECYCLE_EVENT" THEN event.scene_lifecycle_event
    ELSE IF event_type = "SECURITY_ARM_STATE_EVENT" THEN event.security_arm_state_event
    ELSE IF event_type = "TIMER_EVENT" THEN event.timer_event
    ELSE IF event_type = "WEATHER_EVENT" THEN event.weather_event
    ELSE NoPayload

\* EventData.for_type
RECURSIVE EventData_for_type(_, _)
EventData_for_type(events, event_type) ==
    IF events = <<>> THEN <<>>
    ELSE (IF /\ Head(events).event_type = event_type
             /\ ~Event_for_type(Head(events), event_type).isNone
          THEN <<Event_for_type(Head(events), event_type)>>
          ELSE <<>>)
         \o EventData_for_type(Tail(events), event_type)

\* predicates an application filters with; "None" is no predicate
PredicateChoices == {"None", "lambda x: True", "lambda x: False", "lambda x: x.get('k') == 'v'"}

\* predicate(x), and for no predicate the truth value of x: a dict is true
\* when it is not empty
PredicateHolds(predicate, x) ==
    CASE predicate = "None" -> x.items # <<>>
      [] predicate = "lambda x: True" -> TRUE
      [] predicate = "lambda x: False" -> FALSE
      [] predicate = "lambda x: x.get('k') == 'v'" ->
             HasKey(x.items, "k") /\ Lookup(x.items, "k") = "v"

\* list(filter(predicate, items))
RECURSIVE PyFilter(_, _)
PyFilter(predicate, items) ==
    IF items = <<>> THEN <<>>
    ELSE (IF PredicateHolds(predicate, Head(items)) THEN <<Head(items)>> ELSE <<>>)
         \o PyFilter(predicate, Tail(items))

\* EventData.filter
EventData_filter(events, event_type, predicate) ==
    PyFilter(predicate, EventData_for_type(events, event_type))

PayloadChoices == {Payload(<<>>), Payload(<<Item("k", "v")>>), Payload(<<Item("k", "w")>>)}

\* an event of every type with its own attribute set, and events with an
\* empty payload, with no payload and with the attribute of another type
EventChoices ==
    { Event(t, CHOOSE a \in {EventAttributes[i] : i \in 1..Len(EventAttributes)} :
                   Event_for_type(Event(t, a, Payload(<<>>)), t) = Payload(<<>>),
            Payload(<<Item("k", "v")>>)) : t \in EventType }
    \cup { Event("TIMER_EVENT", "timer_event", p) : p \in PayloadChoices \cup {NoPayload} }
    \cup { Event("DEVICE_EVENT", "timer_event", Payload(<<Item("k", "v")>>)),
           Event("DEVICE_EVENT", "device_event", Payload(<<Item("k", "w")>>)) }

\* EventData.events
EventLists == UNION { [1..n -> EventChoices] : n \in 0..MaxEvents }

\* -------------------------------------------------------------------------
\* interface.py: InstalledApp and the convenience methods of the requests
\* -------------------------------------------------------------------------

DeviceValue(device_id) == [device_id |-> device_id, component_id |-> "main"]

DeviceConfigValue(device_config) == [value_type |-> "DEVICE", device_config |-> device_config]

StringConfigValue(value) == [value_type |-> "STRING", string_config |-> [value |-> value]]

InstalledApp(config) == [installed_app_id |-> "app", location_id |-> "location", config |-> config]

\* a float as the decimal fraction it was written as: digits / 10^scale,
\* without trailing zeros in the fraction
RECURSIVE PyFloatValue(_, _)
PyFloatValue(digits, scale) ==
    IF scale > 0 /\ digits % 10 = 0 THEN PyFloatValue(digits \div 10, scale - 1)
    ELSE [digits |-> digits, scale |-> scale]

\* the text without its sign
Unsigned(t) == IF t # <<>> /\ t[1] \in {"-", "+"} THEN Tail(t) ELSE t

\* the digits of a decimal numeral, the point left out
WithoutPoint(t) == SelectSeq(t, LAMBDA c : c # ".")

\* float(s), of text written as an optional sign, digits and at most one
\* decimal point, with whitespace around it
PyFloatOk(s) ==
    LET t == Unsigned(PyStrip(s))
    IN  /\ AllDigits(WithoutPoint(t))
        /\ Len(t) - Len(WithoutPoint(t)) <= 1

PyFloat(s) ==
    LET t == Unsigned(PyStrip(s))
        point == IF \E i \in 1..Len(t) : t[i] = "." THEN CHOOSE i \in 1..Len(t) : t[i] = "." ELSE Len(t)
        value == PyFloatValue(DigitsToNat(WithoutPoint(t)), Len(t) - point)
    IN  IF PyStrip(s)[1] = "-" THEN [value EXCEPT !.digits = 0 - value.digits] ELSE value

\* self.config[key]
ConfigEntries(app, key) ==
    IF HasKey(app.config, key) THEN Returns(Lookup(app.config, key))
    ELSE Raises(PyException("KeyError", "%s", key))

\* InstalledApp.as_devices
as_devices(app, key) ==
    LET entries == ConfigEntries(app, key)
    IN  IF ~entries.ok THEN entries
        ELSE IF \E i \in 1..Len(entries.value) : "device_config" \notin DOMAIN entries.value[i]
        THEN Raises(PyException("AttributeError", "object has no attribute 'device_config'", <<>>))
        ELSE Returns([i \in 1..Len(entries.value) |-> entries.value[i].device_config])

\* variant: the last entry under the key is read
as_str_last(app, key) ==
    LET entries == ConfigEntries(app, key)
    IN  IF ~entries.ok THEN entries
        ELSE IF entries.value = <<>>
        THEN Raises(PyException("IndexError", "list index out of range", <<>>))
        ELSE IF "string_config" \notin DOMAIN entries.value[Len(entries.value)]
        THEN Raises(PyException("AttributeError", "object has no attribute 'string_config'", <<>>))
        ELSE Returns(entries.value[Len(entries.value)].string_config.value)

\* InstalledApp.as_str
as_str(app, key) ==
    LET entries == ConfigEntries(app, key)
    IN  IF ~entries.ok THEN entries
        ELSE IF entries.value = <<>>
        THEN Raises(PyException("IndexError", "list index out of range", <<>>))
        ELSE IF "string_config" \notin DOMAIN entries.value[1]
        THEN Raises(PyException("AttributeError", "object has no attribute 'string_config'", <<>>))
        ELSE Returns(entries.value[1].string_config.value)

\* InstalledApp.as_bool
as_bool(app, key) ==
    LET value == as_str(app, key)
    IN  IF ~value.ok THEN value ELSE Returns(value.value # <<>>)

\* InstalledApp.as_int
as_int(app, key) ==
    LET value == as_str(app, key)
    IN  IF ~value.ok THEN value
        ELSE IF ~PyIntOk(value.value)
        THEN Raises(PyException("ValueError", "invalid literal for int() with base 10: %s", value.value))
        ELSE Returns(PyInt(value.value))

\* InstalledApp.as_float
as_float(app, key) ==
    LET value == as_str(app, key)
    IN  IF ~value.ok THEN value
        ELSE IF ~PyFloatOk(value.value)
        THEN Raises(PyException("ValueError", "could not convert string to float: %s", value.value))
        ELSE Returns(PyFloat(value.value))

AccessorNames == {"as_devices", "as_str", "as_bool", "as_int", "as_float"}

\* the method of InstalledApp of that name
InstalledApp_method(name, app, key) ==
    CASE name = "as_devices" -> as_devices(app, key)
      [] name = "as_str" -> as_str(app, key)
      [] name = "as_bool" -> as_bool(app, key)
      [] name = "as_int" -> as_int(app, key)
      [] name = "as_float" -> as_float(app, key)

InstallData(installed_app) == [installed_app |-> installed_app]

UpdateData(installed_app, previous_config) ==
    [installed_app |-> installed_app, previous_config |-> previous_config]

\* variant: UpdateData reads the config from before the update
Data_method_previous(name, data, key) ==
    IF "previous_config" \in DOMAIN data
    THEN InstalledApp_method(name, InstalledApp(data.previous_config), key)
    ELSE InstalledApp_method(name, data.installed_app, key)

\* the method of InstallData and of UpdateData of that name
Data_method(name, data, key) == InstalledApp_method(name, data.installed_app, key)

\* the method of InstallRequest and of UpdateRequest of that name
Request_method(name, req, key) ==
    IF req.type = "InstallRequest" THEN Data_method(name, req.install_data, key)
    ELSE Data_method(name, req.update_data, key)

\* config bundles: string and device entries, several entries under a key,
\* no entry, and text that is and is not a number
ConfigChoices_app ==
    { << Item("minutes", <<StringConfigValue(<<"5">>)>>),
         Item("enabled", <<StringConfigValue(<<"t", "r", "u", "e">>), StringConfigValue(<<"7">>)>>),
         Item("rate", <<StringConfigValue(<<"1", ".", "5", "0">>)>>),
         Item("sensors", <<DeviceConfigValue(DeviceValue("d1")), DeviceConfigValue(DeviceValue("d2"))>>),
         Item("nothing", <<>>) >>,
      << Item("minutes", <<StringConfigValue(<<" ", "-", "3", "0", " ">>)>>),
         Item("enabled", <<StringConfigValue(<<>>)>>),
         Item("rate", <<StringConfigValue(<<"f", "a", "l", "s", "e">>)>>),
         Item("sensors", <<DeviceConfigValue(DeviceValue("d2")), StringConfigValue(<<"1", "5">>)>>),
         Item("nothing", <<DeviceConfigValue(DeviceValue("d1"))>>) >> }

KeyChoices == {"minutes", "enabled", "rate", "sensors", "nothing", "missing"}

\* install and update requests, an update with another config before it
RequestChoices ==
    { [type |-> "InstallRequest", install_data |-> InstallData(InstalledApp(c))] : c \in ConfigChoices_app }
    \cup { [type |-> "UpdateRequest", update_data |-> UpdateData(InstalledApp(c), p)] :
              c \in ConfigChoices_app, p \in ConfigChoices_app }

\* -------------------------------------------------------------------------
\* converter.py: the camelCase renaming of the attributes of every class
\* -------------------------------------------------------------------------

\* the attrs classes of interface.py
AttrsClasses ==
    {"AbstractRequest", "AbstractSetting", "DeviceSetting", "TextSetting", "BooleanSetting",
     "EnumOption", "EnumOptionGroup", "EnumSetting", "LinkSetting", "PageSetting",
     "ImageSetting", "IconSetting", "TimeSetting", "ParagraphSetting", "EmailSetting",
     "DecimalSetting", "NumberSetting", "PhoneSetting", "OauthSetting", "DeviceValue",
     "DeviceConfigValue", "StringValue", "StringConfigValue", "InstalledApp", "Event",
     "ConfirmationData", "ConfigInit", "ConfigRequestData", "ConfigInitData", "ConfigSection",
     "ConfigPage", "ConfigPageData", "InstallData", "UpdateData", "UninstallData",
     "OauthCallbackData", "EventData", "ConfirmationRequest", "ConfirmationResponse",
     "ConfigurationRequest", "ConfigurationInitResponse", "ConfigurationPageResponse",
     "InstallRequest", "InstallResponse", "UpdateRequest", "UpdateResponse",
     "UninstallRequest", "UninstallResponse", "OauthCallbackRequest", "OauthCallbackResponse",
     "EventRequest", "EventResponse", "SmartAppError", "InternalError", "BadRequestError",
     "SignatureError", "SmartAppDispatcherConfig", "SmartAppConfigPage", "SmartAppDefinition",
     "SmartAppRequestContext"}

\* fields(cls): the attributes of a class, inherited ones first
fields(cls) ==
    CASE cls = "AbstractRequest" ->
           <<<<"l", "i", "f", "e", "c", "y", "c", "l", "e">>, <<"e", "x", "e", "c", "u", "t", "i", "o", "n", "_", "i", "d">>, <<"l", "o", "c", "a", "l", "e">>, <<"v", "e", "r", "s", "i", "o", "n">>>>
      [] cls = "AbstractSetting" ->
           <<<<"i", "d">>, <<"n", "a", "m", "e">>, <<"d", "e", "s", "c", "r", "i", "p", "t", "i", "o", "n">>, <<"r", "e", "q", "u", "i", "r", "e", "d">>>>
      [] cls = "EnumOption" ->
           <<<<"i", "d">>, <<"n", "a", "m", "e">>>>
      [] cls = "EnumOptionGroup" ->
           <<<<"n", "a", "m", "e">>, <<"o", "p", "t", "i", "o", "n", "s">>>>
      [] cls = "DeviceValue" ->
           <<<<"d", "e", "v", "i", "c", "e", "_", "i", "d">>, <<"c", "o", "m", "p", "o", "n", "e", "n", "t", "_", "i", "d">>>>
      [] cls = "StringValue" ->
           <<<<"v", "a", "l", "u", "e">>>>
      [] cls = "InstalledApp" ->
           <<<<"i", "n", "s", "t", "a", "l", "l", "e", "d", "_", "a", "p", "p", "_", "i", "d">>, <<"l", "o", "c", "a", "t", "i", "o", "n", "_", "i", "d">>, <<"c", "o", "n", "f", "i", "g">>, <<"p", "e", "r", "m", "i", "s", "s", "i", "o", "n", "s">>>>
      [] cls = "Event" ->
           <<<<"e", "v", "e", "n", "t", "_", "t", "i", "m", "e">>, <<"e", "v", "e", "n", "t", "_", "t", "y", "p", "e">>, <<"d", "e", "v", "i", "c", "e", "_", "e", "v", "e", "n", "t">>, <<"d", "e", "v", "i", "c", "e", "_", "l", "i", "f", "e", "c", "y", "c", "l", "e", "_", "e", "v", "e", "n", "t">>, <<"d", "e", "v", "i", "c", "e", "_", "h", "e", "a", "l", "t", "h", "_", "e", "v", "e", "n", "t">>, <<"d", "e", "v", "i", "c", "e", "_", "c", "o", "m", "m", "a", "n", "d", "s", "_", "e", "v", "e", "n", "t">>, <<"m", "o", "d", "e", "_", "e", "v", "e", "n", "t">>, <<"t", "i", "m", "e", "r", "_", "e", "v", "e", "n", "t">>, <<"s", "c", "e", "n", "e", "_", "l", "i", "f", "e", "c", "y", "c", "l", "e", "_", "e", "v", "e", "n", "t">>, <<"s", "e", "c", "u", "r", "i", "t", "y", "_", "a", "r", "m", "_", "s", "t", "a", "t", "e", "_", "e", "v", "e", "n", "t">>, <<"h", "u", "b", "_", "h", "e", "a", "l", "t", "h", "_", "e", "v", "e", "n", "t">>, <<"i", "n", "s", "t", "a", "l", "l", "e", "d", "_", "a", "p", "p", "_", "l", "i", "f", "e", "c", "y", "c", "l", "e", "_", "e", "v", "e", "n", "t">>, <<"w", "e", "a", "t", "h", "e", "r", "_", "e", "v", "e", "n", "t">>, <<"w", "e", "a", "t", "h", "e", "r", "_", "d", "a", "t", "a">>, <<"a", "i", "r", "_", "q", "u", "a", "l", "i", "t", "y", "_", "d", "a", "t", "a">>>>
      [] cls = "ConfirmationData" ->
           <<<<"a", "p", "p", "_", "i", "d">>, <<"c", "o", "n", "f", "i", "r", "m", "a", "t", "i", "o", "n", "_", "u", "r", "l">>>>
      [] cls = "ConfigInit" ->
           <<<<"i", "d">>, <<"n", "a", "m", "e">>, <<"d", "e", "s", "c", "r", "i", "p", "t", "i", "o", "n">>, <<"p", "e", "r", "m", "i", "s", "s", "i", "o", "n", "s">>, <<"f", "i", "r", "s", "t", "_", "p", "a", "g", "e", "_", "i", "d">>>>
      [] cls = "ConfigRequestData" ->
           <<<<"i", "n", "s", "t", "a", "l", "l", "e", "d", "_", "a", "p", "p", "_", "i", "d">>, <<"p", "h", "a", "s", "e">>, <<"p", "a", "g", "e", "_", "i", "d">>, <<"p", "r", "e", "v", "i", "o", "u", "s", "_", "p", "a", "g", "e", "_", "i", "d">>, <<"c", "o", "n", "f", "i", "g">>>>
      [] cls = "ConfigInitData" ->
           <<<<"i", "n", "i", "t", "i", "a", "l", "i", "z", "e">>>>
      [] cls = "ConfigSection" ->
           <<<<"n", "a", "m", "e">>, <<"s", "e", "t", "t", "i", "n", "g", "s">>>>
      [] cls = "ConfigPage" ->
           <<<<"p", "a", "g", "e", "_", "i", "d">>, <<"n", "a", "m", "e">>, <<"p", "r", "e", "v", "i", "o", "u", "s", "_", "p", "a", "g", "e", "_", "i", "d">>, <<"n", "e", "x", "t", "_", "p", "a", "g", "e", "_", "i", "d">>, <<"c", "o", "m", "p", "l", "e", "t", "e">>, <<"s", "e", "c", "t", "i", "o", "n", "s">>>>
      [] cls = "ConfigPageData" ->
           <<<<"p", "a", "g", "e">>>>
      [] cls = "InstallData" ->
           <<<<"a", "u", "t", "h", "_", "t", "o", "k", "e", "n">>, <<"r", "e", "f", "r", "e", "s", "h", "_", "t", "o", "k", "e", "n">>, <<"i", "n", "s", "t", "a", "l", "l", "e", "d", "_", "a", "p", "p">>>>
      [] cls = "UpdateData" ->
           <<<<"a", "u", "t", "h", "_", "t", "o", "k", "e", "n">>, <<"r", "e", "f", "r", "e", "s", "h", "_", "t", "o", "k", "e", "n">>, <<"i", "n", "s", "t", "a", "l", "l", "e", "d", "_", "a", "p", "p">>, <<"p", "r", "e", "v", "i", "o", "u", "s", "_", "c", "o", "n", "f", "i", "g">>, <<"p", "r", "e", "v", "i", "o", "u", "s", "_", "p", "e", "r", "m", "i", "s", "s", "i", "o", "n", "s">>>>
      [] cls = "UninstallData" ->
           <<<<"i", "n", "s", "t", "a", "l", "l", "e", "d", "_", "a", "p", "p">>>>
      [] cls = "OauthCallbackData" ->
           <<<<"i", "n", "s", "t", "a", "l", "l", "e", "d", "_", "a", "p", "p", "_", "i", "d">>, <<"u", "r", "l", "_", "p", "a", "t", "h">>>>
      [] cls = "EventData" ->
           <<<<"a", "u", "t", "h", "_", "t", "o", "k", "e", "n">>, <<"i", "n", "s", "t", "a", "l", "l", "e", "d", "_", "a", "p", "p">>, <<"e", "v", "e", "n", "t", "s">>>>
      [] cls = "ConfirmationResponse" ->
           <<<<"t", "a", "r", "g", "e", "t", "_", "u", "r", "l">>>>
      [] cls = "ConfigurationInitResponse" ->
           <<<<"c", "o", "n", "f", "i", "g", "u", "r", "a", "t", "i", "o", "n", "_", "d", "a", "t", "a">>>>
      [] cls = "ConfigurationPageResponse" ->
           <<<<"c", "o", "n", "f", "i", "g", "u", "r", "a", "t", "i", "o", "n", "_", "d", "a", "t", "a">>>>
      [] cls = "InstallResponse" ->
           <<<<"i", "n", "s", "t", "a", "l", "l", "_", "d", "a", "t", "a">>>>
      [] cls = "UpdateResponse" ->
           <<<<"u", "p", "d", "a", "t", "e", "_", "d", "a", "t", "a">>>>
      [] cls = "UninstallResponse" ->
           <<<<"u", "n", "i", "n", "s", "t", "a", "l", "l", "_", "d", "a", "t", "a">>>>
      [] cls = "OauthCallbackResponse" ->
           <<<<"o", "_", "a", "u", "t", "h", "_", "c", "a", "l", "l", "b", "a", "c", "k", "_", "d", "a", "t", "a">>>>
      [] cls = "EventResponse" ->
           <<<<"e", "v", "e", "n", "t", "_", "d", "a", "t", "a">>>>
      [] cls = "SmartAppError" ->
           <<<<"m", "e", "s", "s", "a", "g", "e">>, <<"c", "o", "r", "r", "e", "l", "a", "t", "i", "o", "n", "_", "i", "d">>>>
      [] cls = "InternalError" ->
           <<<<"m", "e", "s", "s", "a", "g", "e">>, <<"c", "o", "r", "r", "e", "l", "a", "t", "i", "o", "n", "_", "i", "d">>>>
      [] cls = "BadRequestError" ->
           <<<<"m", "e", "s", "s", "a", "g", "e">>, <<"c", "o", "r", "r", "e", "l", "a", "t", "i", "o", "n", "_", "i", "d">>>>
      [] cls = "SignatureError" ->
           <<<<"m", "e", "s", "s", "a", "g", "e">>, <<"c", "o", "r", "r", "e", "l", "a", "t", "i", "o", "n", "_", "i", "d">>>>
      [] cls = "SmartAppDispatcherConfig" ->
           <<<<"c", "h", "e", "c", "k", "_", "s", "i", "g", "n", "a", "t", "u", "r", "e", "s">>, <<"c", "l", "o", "c", "k", "_", "s", "k", "e", "w", "_", "s", "e", "c">>, <<"k", "e", "y", "s", "e", "r", "v", "e", "r", "_", "u", "r", "l">>, <<"l", "o", "g", "_", "j", "s", "o", "n">>>>
      [] cls = "SmartAppConfigPage" ->
           <<<<"p", "a", "g", "e", "_", "n", "a", "m", "e">>, <<"s", "e", "c", "t", "i", "o", "n", "s">>>>
      [] cls = "SmartAppDefinition" ->
           <<<<"i", "d">>, <<"n", "a", "m", "e">>, <<"d", "e", "s", "c", "r", "i", "p", "t", "i", "o", "n">>, <<"t", "a", "r", "g", "e", "t", "_", "u", "r", "l">>, <<"p", "e", "r", "m", "i", "s", "s", "i", "o", "n", "s">>, <<"c", "o", "n", "f", "i", "g", "_", "p", "a", "g", "e", "s">>>>
      [] cls = "SmartAppRequestContext" ->
           <<<<"h", "e", "a", "d", "e", "r", "s">>, <<"b", "o", "d", "y">>, <<"n", "o", "r", "m", "a", "l", "i", "z", "e", "d">>, <<"c", "o", "r", "r", "e", "l", "a", "t", "i", "o", "n", "_", "i", "d">>, <<"s", "i", "g", "n", "a", "t", "u", "r", "e">>, <<"d", "a", "t", "e">>>>
      [] OTHER -> Attributes(cls)

\* the overrides both hook factories build: {a.name: override(rename=...)}
Overrides(cls) == [i \in 1..Len(fields(cls)) |-> Item(fields(cls)[i], _to_camel_case(fields(cls)[i]))]

\* StandardConverter._unstructure_camel_case
_unstructure_camel_case(cls) == Overrides(cls)

\* StandardConverter._structure_camel_case
_structure_camel_case(cls) == Overrides(cls)

\* -------------------------------------------------------------------------
\* KeyCache: key ids, entries and callers
\* -------------------------------------------------------------------------

\* concurrent dispatch calls whose verifier asks the cache for a key
MaxCallers == 3

\* fetches of one key the key server is asked for (a failed fetch is not cached)
MaxFetches == 2

Callers == 1..MaxCallers

KeyIds == {"key-a", "key-b"}

NoEntry == [present |-> FALSE]

\* what the key server holds for a key id
KeyMaterial(key_id) == [key_id |-> key_id, pem |-> "public key"]

\* a cache entry: complete once the key material is stored in it
Entry(material, complete) == [present |-> TRUE, material |-> material, complete |-> complete]

NoCaller == [pc |-> "idle"]

\* a caller inside get(keyId): waiting for a fetch in flight or fetching
Calling(position, key_id) == [pc |-> position, key |-> key_id]

\* get(keyId) has returned key material to the caller
Got(key_id, entry) == [pc |-> "done", key |-> key_id, entry |-> entry]

\* get(keyId) has failed: the verification of this caller fails
Failed(key_id) == [pc |-> "failed", key |-> key_id]

\* -------------------------------------------------------------------------
\* SmartAppDispatcher.dispatch as a state machine
\* -------------------------------------------------------------------------

VARIABLES
    definition,      \* SmartAppDispatcher.definition
    config,          \* SmartAppDispatcher.config
    context,         \* the SmartAppRequestContext of the call in progress
    pc,              \* position of the call in dispatch()
    request,         \* the decoded LifecycleRequest, NoRequest before decoding
    response,        \* the LifecycleResponse built, NoResponse before
    outcome,         \* what dispatch() returned or raised, Pending before
    verify_calls,    \* verify() invocations of this call, in order: TRUE if it returned
    handler_calls    \* callbacks invoked by this call, in order, with what each did

VARIABLES
    clock,           \* how many moments have passed: arrow_now() gives NowChoices[clock]
    codec_pc,        \* the converter call last made
    codec_in,        \* its argument
    codec_mid,       \* the intermediate value of a two-step conversion
    codec_out        \* its result

VARIABLES
    key_cache,       \* KeyCache: the entry stored for each key id
    in_flight,       \* key ids with a fetch from the key server in progress
    fetches,         \* fetches issued so far, per key id
    callers          \* the position of each concurrent caller of get(keyId)

VARIABLES
    previous_call    \* how the call before this one ended, "none" when it is not followed

\* the variables of the converter and key cache specifications
other_vars == <<clock, codec_pc, codec_in, codec_mid, codec_out, key_cache, in_flight, fetches, callers, previous_call>>

vars == <<definition, config, context, pc, request, response, outcome, verify_calls, handler_calls, other_vars>>

NoResponse == [type |-> "None"]

Pending == [status |-> "pending"]

Returned(json) == [status |-> "returned", json |-> json]

\* error is what dispatch() raises; caught is the exception that left the try
\* block and step is the position it was raised at
Raised(error, caught, step) == [status |-> "raised", error |-> error, caught |-> caught, step |-> step]

HandlerCall(handler, result) == [handler |-> handler, result |-> result]

NoContext == SmartAppRequestContext(<<>>, Body("malformed", "", FALSE, "INITIALIZE", <<>>))

NoValue == [kind |-> "none"]

\* no converter call has been made
CodecIdle ==
    /\ clock = 1
    /\ codec_pc = "idle"
    /\ codec_in = NoValue
    /\ codec_mid = NoValue
    /\ codec_out = NoValue

\* an empty key cache and no caller
KeyCacheIdle ==
    /\ key_cache = [k \in KeyIds |-> NoEntry]
    /\ in_flight = {}
    /\ fetches = [k \in KeyIds |-> 0]
    /\ callers = [c \in Callers |-> NoCaller]

Init ==
    /\ definition \in DefinitionChoices
    /\ config \in ConfigChoices
    /\ context = NoContext
    /\ pc = "idle"
    /\ request = NoRequest
    /\ response = NoResponse
    /\ outcome = Pending
    /\ verify_calls = <<>>
    /\ handler_calls = <<>>
    /\ CodecIdle
    /\ KeyCacheIdle
    /\ previous_call = "none"

\* an exception leaves the try block: the except clauses decide what dispatch raises
Fail(e) ==
    /\ pc' = "failed"
    /\ outcome' = Raised(dispatch_except(e, context.correlation_id), e, pc)

\* The host builds a request context and calls dispatch(context).
Receive ==
    /\ pc = "idle"
    /\ \E h \in HeaderChoices, b \in BodyChoices : context' = SmartAppRequestContext(h, b)
    /\ pc' = "received"
    /\ UNCHANGED <<other_vars, definition, config, request, response, outcome, verify_calls, handler_calls>>

\* dispatch() has returned or raised: the host takes the outcome and the
\* locals of the call are gone; the dispatcher is ready for the next call
Return ==
    /\ pc \in {"responded", "failed"}
    /\ pc' = "idle"
    /\ context' = NoContext
    /\ request' = NoRequest
    /\ response' = NoResponse
    /\ outcome' = Pending
    /\ verify_calls' = <<>>
    /\ handler_calls' = <<>>
    /\ UNCHANGED <<other_vars, definition, config>>

\* request = CONVERTER.from_json(context.body, LifecycleRequest)
Decode ==
    /\ pc = "received"
    /\ \E r \in from_json(context.body) :
          IF r.ok
          THEN /\ request' = r.value
               /\ pc' = "decoded"
               /\ UNCHANGED outcome
          ELSE /\ Fail(r.exc)
               /\ UNCHANGED request
    /\ UNCHANGED <<other_vars, definition, config, context, response, verify_calls, handler_calls>>

\* variant: the result of verify() is ignored
Verify_unchecked ==
    /\ pc = "decoded"
    /\ config.check_signatures
    /\ \E env \in VerifyEnvChoices :
          verify_calls' = Append(verify_calls, verify(context, config, env).ok)
    /\ pc' = "verified"
    /\ UNCHANGED <<other_vars, definition, config, context, request, response, outcome, handler_calls>>

\* variant: the check is left out once an earlier call has come back
Verify_remembered ==
    /\ pc = "decoded"
    /\ config.check_signatures
    /\ IF previous_call = "returned"
       THEN pc' = "verified" /\ UNCHANGED <<outcome, verify_calls>>
       ELSE \E env \in VerifyEnvChoices :
               LET r == verify(context, config, env)
               IN  /\ verify_calls' = Append(verify_calls, r.ok)
                   /\ IF r.ok
                      THEN pc' = "verified" /\ UNCHANGED outcome
                      ELSE Fail(r.exc)
    /\ UNCHANGED <<other_vars, definition, config, context, request, response, handler_calls>>

\* if self.config.check_signatures: SignatureVerifier(...).verify()
Verify ==
    /\ pc = "decoded"
    /\ config.check_signatures
    /\ \E env \in VerifyEnvChoices :
          LET r == verify(context, config, env)
          IN  /\ verify_calls' = Append(verify_calls, r.ok)
              /\ IF r.ok
                 THEN pc' = "verified" /\ UNCHANGED outcome
                 ELSE Fail(r.exc)
    /\ UNCHANGED <<other_vars, definition, config, context, request, response, handler_calls>>

\* variant: the verifier runs although check_signatures is off
SkipVerify_verifying ==
    /\ pc = "decoded"
    /\ ~config.check_signatures
    /\ \E env \in VerifyEnvChoices :
          LET r == verify(context, config, env)
          IN  /\ verify_calls' = Append(verify_calls, r.ok)
              /\ IF r.ok
                 THEN pc' = "skipped" /\ UNCHANGED outcome
                 ELSE Fail(r.exc)
    /\ UNCHANGED <<other_vars, definition, config, context, request, response, handler_calls>>

\* if not self.config.check_signatures: the verifier is not constructed
SkipVerify ==
    /\ pc = "decoded"
    /\ ~config.check_signatures
    /\ pc' = "skipped"
    /\ UNCHANGED <<other_vars, definition, config, context, request, response, outcome, verify_calls, handler_calls>>

\* variant: the callback is invoked before the signature check
Route_before_verify ==
    /\ pc \in {"decoded", "verified", "skipped"}
    /\ \E r \in HandlerOutcomes :
          /\ handler_calls' = Append(handler_calls, HandlerCall(HandlerFor(request), r))
          /\ IF r.ok
             THEN pc' = "routed" /\ UNCHANGED outcome
             ELSE Fail(r.exc)
    /\ UNCHANGED <<other_vars, definition, config, context, request, response, verify_calls>>

\* variant: a CONFIGURATION request goes to the config manager unannounced
Route_unannounced ==
    /\ pc \in {"verified", "skipped"}
    /\ \E r \in HandlerOutcomes :
          IF request.type = "ConfigurationRequest"
          THEN pc' = "routed" /\ UNCHANGED <<outcome, handler_calls>>
          ELSE /\ handler_calls' = Append(handler_calls, HandlerCall(HandlerFor(request), r))
               /\ IF r.ok
                  THEN pc' = "routed" /\ UNCHANGED outcome
                  ELSE Fail(r.exc)
    /\ UNCHANGED <<other_vars, definition, config, context, request, response, verify_calls>>

\* _handle_request: the isinstance chain selects the callback and invokes it
Route ==
    /\ pc \in {"verified", "skipped"}
    /\ \E r \in HandlerOutcomes :
          /\ handler_calls' = Append(handler_calls, HandlerCall(HandlerFor(request), r))
          /\ IF r.ok
             THEN pc' = "routed" /\ UNCHANGED outcome
             ELSE Fail(r.exc)
    /\ UNCHANGED <<other_vars, definition, config, context, request, response, verify_calls>>

\* variant: the response is built without waiting for the callback
Build_before_handler ==
    /\ pc \in {"verified", "skipped", "routed"}
    /\ LET r == BuildResponse(request, definition)
       IN  IF r.ok
           THEN /\ response' = r.value
                /\ pc' = "built"
                /\ UNCHANGED outcome
           ELSE /\ Fail(r.exc)
                /\ UNCHANGED response
    /\ UNCHANGED <<other_vars, definition, config, context, request, verify_calls, handler_calls>>

\* _handle_request: the response is built after the callback returned
Build ==
    /\ pc = "routed"
    /\ LET r == BuildResponse(request, definition)
       IN  IF r.ok
           THEN /\ response' = r.value
                /\ pc' = "built"
                /\ UNCHANGED outcome
           ELSE /\ Fail(r.exc)
                /\ UNCHANGED response
    /\ UNCHANGED <<other_vars, definition, config, context, request, verify_calls, handler_calls>>

\* return CONVERTER.to_json(response)
Encode ==
    /\ pc = "built"
    /\ LET r == to_json(response, definition)
       IN  IF r.ok
           THEN pc' = "responded" /\ outcome' = Returned(r.value)
           ELSE Fail(r.exc)
    /\ UNCHANGED <<other_vars, definition, config, context, request, response, verify_calls, handler_calls>>

Next == Receive \/ Decode \/ Verify \/ SkipVerify \/ Route \/ Build \/ Encode \/ Return

Spec == Init /\ [][Next]_vars

\* -------------------------------------------------------------------------
\* Calls that follow one another on the same dispatcher
\* -------------------------------------------------------------------------

codec_vars == <<clock, codec_pc, codec_in, codec_mid, codec_out>>

key_cache_vars == <<key_cache, in_flight, fetches, callers>>

\* a dispatcher constructed without config pages or with two of them
StatelessInit ==
    /\ Init
    /\ definition.target_url = <<"u", "r", "l">>
    /\ definition.config_pages \in {NoneList, SomeList(ConfigPagesOfLen(2))}

\* dispatch() has returned or raised and the host goes on to its next call:
\* as Return, with the way this call ended kept for the property to refer to
NextCall ==
    /\ pc \in {"responded", "failed"}
    /\ pc' = "idle"
    /\ context' = NoContext
    /\ request' = NoRequest
    /\ response' = NoResponse
    /\ outcome' = Pending
    /\ verify_calls' = <<>>
    /\ handler_calls' = <<>>
    /\ previous_call' = outcome.status
    /\ UNCHANGED <<definition, config, codec_vars, key_cache_vars>>

StatelessNext == Receive \/ Decode \/ Verify \/ SkipVerify \/ Route \/ Build \/ Encode \/ NextCall

StatelessSpec == StatelessInit /\ [][StatelessNext]_vars

\* -------------------------------------------------------------------------
\* The converter called on its own: timestamps, unions, round trips
\* -------------------------------------------------------------------------

dispatcher_vars == <<definition, config, context, pc, request, response, outcome, verify_calls, handler_calls>>

arrow_now == NowChoices[clock]

ConverterInit ==
    /\ definition = SmartAppDefinition(NoneList, TRUE, <<"u", "r", "l">>)
    /\ config = SmartAppDispatcherConfig(TRUE, DefaultClockSkewSec)
    /\ context = NoContext
    /\ pc = "idle"
    /\ request = NoRequest
    /\ response = NoResponse
    /\ outcome = Pending
    /\ verify_calls = <<>>
    /\ handler_calls = <<>>
    /\ CodecIdle
    /\ KeyCacheIdle
    /\ previous_call = "none"

\* time passes
Tick ==
    /\ clock < Len(NowChoices)
    /\ clock' = clock + 1
    /\ UNCHANGED <<codec_pc, codec_in, codec_mid, codec_out, dispatcher_vars, key_cache_vars, previous_call>>

\* the caller takes the result; the converter keeps nothing
Forget ==
    /\ codec_pc # "idle"
    /\ codec_pc' = "idle"
    /\ codec_in' = NoValue
    /\ codec_mid' = NoValue
    /\ codec_out' = NoValue
    /\ UNCHANGED <<clock, dispatcher_vars, key_cache_vars, previous_call>>

\* deserialize_datetime(s)
Deserialize ==
    /\ codec_pc = "idle"
    /\ \E s \in DatetimeChoices :
          /\ codec_in' = s
          /\ codec_out' = deserialize_datetime(s, arrow_now)
    /\ codec_pc' = "deserialize_datetime"
    /\ UNCHANGED <<clock, codec_mid, dispatcher_vars, key_cache_vars, previous_call>>

\* serialize_datetime(a)
Serialize ==
    /\ codec_pc = "idle"
    /\ \E a \in ArrowChoices :
          /\ codec_in' = a
          /\ codec_out' = serialize_datetime(a)
    /\ codec_pc' = "serialize_datetime"
    /\ UNCHANGED <<clock, codec_mid, dispatcher_vars, key_cache_vars, previous_call>>

\* serialize_datetime(deserialize_datetime(s)): a decoded timestamp is encoded again
Reserialize ==
    /\ codec_pc = "deserialize_datetime"
    /\ codec_out.ok
    /\ codec_mid' = codec_out.value
    /\ codec_out' = serialize_datetime(codec_out.value)
    /\ codec_pc' = "reserialize_datetime"
    /\ UNCHANGED <<clock, codec_in, dispatcher_vars, key_cache_vars, previous_call>>

\* to_json(x) or to_yaml(x)
ToText ==
    /\ codec_pc = "idle"
    /\ \E format \in TextFormats, x \in VariantChoices :
          /\ codec_in' = [format |-> format, obj |-> x]
          /\ codec_mid' = to_text(format, x)
    /\ codec_pc' = "to_text"
    /\ UNCHANGED <<clock, codec_out, dispatcher_vars, key_cache_vars, previous_call>>

\* from_json(text, cls) or from_yaml(text, cls), of the text just written
\* and the union of the object it was written from
FromText ==
    /\ codec_pc = "to_text"
    /\ \E detailed \in BOOLEAN :
          codec_out' = from_text(codec_in.format, codec_mid, UnionOf(codec_in.obj.cls),
                                 arrow_now, detailed)
    /\ codec_pc' = "from_text"
    /\ UNCHANGED <<clock, codec_in, codec_mid, dispatcher_vars, key_cache_vars, previous_call>>

\* the hook factories are asked for the hooks of an attrs class
MakeHooks ==
    /\ codec_pc = "idle"
    /\ \E cls \in AttrsClasses :
          /\ codec_in' = [cls |-> cls]
          /\ codec_mid' = _unstructure_camel_case(cls)
          /\ codec_out' = _structure_camel_case(cls)
    /\ codec_pc' = "hooks"
    /\ UNCHANGED <<clock, dispatcher_vars, key_cache_vars, previous_call>>

\* structure(data, cls) with a union for cls, of a document as it arrives
Structure ==
    /\ codec_pc = "idle"
    /\ \E x \in VariantChoices, tampering \in Tampering, detailed \in BOOLEAN :
          LET union == UnionOf(x.cls)
              data == Tampered(unstructure_attrs(x), DiscriminatorKey(union), tampering)
          IN  /\ codec_in' = [union |-> union, tampering |-> tampering]
              /\ codec_mid' = data
              /\ codec_out' = structure(data, union, arrow_now, detailed)
    /\ codec_pc' = "structured"
    /\ UNCHANGED <<clock, dispatcher_vars, key_cache_vars, previous_call>>

ConverterNext ==
    \/ Tick \/ Forget \/ Deserialize \/ Serialize \/ Reserialize \/ ToText \/ FromText \/ MakeHooks
    \/ Structure

ConverterSpec == ConverterInit /\ [][ConverterNext]_vars

\* -------------------------------------------------------------------------
\* KeyCache.get(keyId) under concurrent dispatch calls
\* -------------------------------------------------------------------------

KeyCacheInit == ConverterInit

key_cache_frame == <<dispatcher_vars, codec_vars, previous_call>>

\* get(keyId) finds the key cached: no fetch
Hit(c, k) ==
    /\ callers[c].pc = "idle"
    /\ key_cache[k].present
    /\ callers' = [callers EXCEPT ![c] = Got(k, key_cache[k])]
    /\ UNCHANGED <<key_cache, in_flight, fetches, key_cache_frame>>

\* get(keyId) misses while another caller is fetching the key: wait for it
Join(c, k) ==
    /\ callers[c].pc = "idle"
    /\ ~key_cache[k].present
    /\ k \in in_flight
    /\ callers' = [callers EXCEPT ![c] = Calling("waiting", k)]
    /\ UNCHANGED <<key_cache, in_flight, fetches, key_cache_frame>>

\* variant: every caller that misses asks the key server
Miss_each(c, k) ==
    /\ callers[c].pc = "idle"
    /\ ~key_cache[k].present
    /\ fetches[k] < MaxFetches
    /\ in_flight' = in_flight \cup {k}
    /\ fetches' = [fetches EXCEPT ![k] = fetches[k] + 1]
    /\ callers' = [callers EXCEPT ![c] = Calling("fetching", k)]
    /\ UNCHANGED <<key_cache, key_cache_frame>>

\* get(keyId) misses and no fetch of the key is in flight: ask the key server
Miss(c, k) ==
    /\ callers[c].pc = "idle"
    /\ ~key_cache[k].present
    /\ k \notin in_flight
    /\ fetches[k] < MaxFetches
    /\ in_flight' = in_flight \cup {k}
    /\ fetches' = [fetches EXCEPT ![k] = fetches[k] + 1]
    /\ callers' = [callers EXCEPT ![c] = Calling("fetching", k)]
    /\ UNCHANGED <<key_cache, key_cache_frame>>

\* variant: the entry is put into the cache before the key material is in it
FetchDone_early(c) ==
    /\ callers[c].pc = "fetching"
    /\ key_cache' = [key_cache EXCEPT ![callers[c].key] = Entry(KeyMaterial(callers[c].key), FALSE)]
    /\ in_flight' = in_flight \ {callers[c].key}
    /\ callers' = [callers EXCEPT ![c] = Got(callers[c].key, Entry(KeyMaterial(callers[c].key), TRUE))]
    /\ UNCHANGED <<fetches, key_cache_frame>>

\* the key server answers: the complete entry is stored and the flight ends
FetchDone(c) ==
    /\ callers[c].pc = "fetching"
    /\ key_cache' = [key_cache EXCEPT ![callers[c].key] = Entry(KeyMaterial(callers[c].key), TRUE)]
    /\ in_flight' = in_flight \ {callers[c].key}
    /\ callers' = [callers EXCEPT ![c] = Got(callers[c].key, Entry(KeyMaterial(callers[c].key), TRUE))]
    /\ UNCHANGED <<fetches, key_cache_frame>>

\* the fetch fails (network error, unknown key id, malformed key material):
\* nothing is stored and the caller's verification fails
FetchFail(c) ==
    /\ callers[c].pc = "fetching"
    /\ in_flight' = in_flight \ {callers[c].key}
    /\ callers' = [callers EXCEPT ![c] = Failed(callers[c].key)]
    /\ UNCHANGED <<key_cache, fetches, key_cache_frame>>

\* the flight a caller waited for has ended: it takes the entry stored, or
\* fails as the fetch did
Wake(c) ==
    /\ callers[c].pc = "waiting"
    /\ callers[c].key \notin in_flight
    /\ callers' = [callers EXCEPT ![c] =
                      IF key_cache[callers[c].key].present
                      THEN Got(callers[c].key, key_cache[callers[c].key])
                      ELSE Failed(callers[c].key)]
    /\ UNCHANGED <<key_cache, in_flight, fetches, key_cache_frame>>

\* the dispatch call of the caller ends; another may begin
Leave(c) ==
    /\ callers[c].pc \in {"done", "failed"}
    /\ callers' = [callers EXCEPT ![c] = NoCaller]
    /\ UNCHANGED <<key_cache, in_flight, fetches, key_cache_frame>>

KeyCacheNext ==
    \E c \in Callers :
        \/ \E k \in KeyIds : Hit(c, k) \/ Join(c, k) \/ Miss(c, k)
        \/ FetchDone(c)
        \/ FetchFail(c)
        \/ Wake(c)
        \/ Leave(c)

KeyCacheSpec == KeyCacheInit /\ [][KeyCacheNext]_vars

\* -------------------------------------------------------------------------
\* The methods of the interface classes called on their own
\* -------------------------------------------------------------------------

InterfaceInit == ConverterInit

interface_frame == <<clock, codec_mid, dispatcher_vars, key_cache_vars, previous_call>>

\* event_data.for_type(event_type)
ForType ==
    /\ codec_pc = "idle"
    /\ \E events \in EventLists, event_type \in EventType :
          /\ codec_in' = [events |-> events, event_type |-> event_type]
          /\ codec_out' = EventData_for_type(events, event_type)
    /\ codec_pc' = "for_type"
    /\ UNCHANGED interface_frame

\* event_data.filter(event_type, predicate)
Filter ==
    /\ codec_pc = "idle"
    /\ \E events \in EventLists, event_type \in EventType, predicate \in PredicateChoices :
          /\ codec_in' = [events |-> events, event_type |-> event_type, predicate |-> predicate]
          /\ codec_out' = EventData_filter(events, event_type, predicate)
    /\ codec_pc' = "filter"
    /\ UNCHANGED interface_frame

\* request.as_str(key) and the like, on an InstallRequest or an UpdateRequest
Accessor ==
    /\ codec_pc = "idle"
    /\ \E req \in RequestChoices, name \in AccessorNames, key \in KeyChoices :
          /\ codec_in' = [request |-> req, name |-> name, key |-> key]
          /\ codec_out' = Request_method(name, req, key)
    /\ codec_pc' = "accessor"
    /\ UNCHANGED interface_frame

InterfaceNext == Forget \/ ForType \/ Filter \/ Accessor

InterfaceSpec == InterfaceInit /\ [][InterfaceNext]_vars

\* -------------------------------------------------------------------------
\* A configuration negotiation: INITIALIZE, then PAGE requests
\* -------------------------------------------------------------------------

NegotiationInit == ConverterInit

negotiation_frame == <<clock, dispatcher_vars, key_cache_vars, previous_call>>

\* the ConfigRequestData of a CONFIGURATION request
ConfigRequestData(phase, page_id) == [phase |-> phase, page_id |-> page_id]

\* the page id the last response offers: firstPageId of the INITIALIZE
\* response, then nextPageId of the last page response; None past the end
Offered ==
    IF codec_mid = <<>> THEN codec_out.value.configuration_data.initialize.first_page_id
    ELSE IF ~codec_mid[Len(codec_mid)].ok THEN None
    ELSE codec_mid[Len(codec_mid)].value.configuration_data.page.next_page_id

\* a CONFIGURATION request of phase INITIALIZE opens a negotiation
Initialize ==
    /\ codec_pc = "idle"
    /\ \E d \in DefinitionChoices :
          /\ codec_in' = [definition |-> d, followed |-> TRUE]
          /\ codec_out' = _handle_config_request(ConfigRequestData("INITIALIZE", <<>>), d)
    /\ codec_mid' = <<>>
    /\ codec_pc' = "negotiating"
    /\ UNCHANGED negotiation_frame

\* the caller asks for the page it was offered
FollowPage ==
    /\ codec_pc = "negotiating"
    /\ codec_in.followed
    /\ Offered # None
    /\ codec_mid' = Append(codec_mid,
                           _handle_config_request(ConfigRequestData("PAGE", Offered), codec_in.definition))
    /\ UNCHANGED <<codec_pc, codec_in, codec_out, negotiation_frame>>

\* the caller asks for another page than the one it was offered
StrayPage ==
    /\ codec_pc = "negotiating"
    /\ codec_in.followed
    /\ \E page_id \in PageIdChoices \ {Offered} :
          codec_mid' = Append(codec_mid,
                              _handle_config_request(ConfigRequestData("PAGE", page_id), codec_in.definition))
    /\ codec_in' = [codec_in EXCEPT !.followed = FALSE]
    /\ UNCHANGED <<codec_pc, codec_out, negotiation_frame>>

NegotiationNext == Forget \/ Initialize \/ FollowPage \/ StrayPage

NegotiationSpec == NegotiationInit /\ [][NegotiationNext]_vars

\* -------------------------------------------------------------------------
\* Properties
\* -------------------------------------------------------------------------

Terminal == pc \in {"responded", "failed"}

\* the steps of one call, each leading to the next
ForwardSteps ==
    { <<"received", "decoded">>, <<"decoded", "verified">>, <<"decoded", "skipped">>,
      <<"verified", "routed">>, <<"skipped", "routed">>, <<"routed", "built">>,
      <<"built", "responded">> }

FailSteps == { <<p, "failed">> : p \in {"received", "decoded", "verified", "skipped", "routed", "built"} }

CallBoundarySteps == { <<"idle", "received">>, <<"responded", "idle">>, <<"failed", "idle">> }

\* C1: a call to dispatch goes through decode, verify or skip-verify, the
\* handler callback, the building of the response and its encoding in that
\* order: every step goes to the next position or straight to failure, and a
\* step's effect (the decoded request, a verify() invocation, a callback
\* invocation, the response, the returned text) appears only from the position
\* its predecessor leaves on success.
C1_StepOrder ==
    [][ /\ <<pc, pc'>> \in ForwardSteps \cup FailSteps \cup CallBoundarySteps
        /\ pc' # "idle" =>
              /\ request' # request => pc = "received" /\ pc' = "decoded"
              /\ verify_calls' # verify_calls => pc = "decoded" /\ pc' \in {"verified", "failed"}
              /\ handler_calls' # handler_calls =>
                    pc \in {"verified", "skipped"} /\ pc' \in {"routed", "failed"}
              /\ response' # response => pc = "routed" /\ pc' = "built"
              /\ outcome'.status = "returned" => pc = "built" /\ pc' = "responded"
      ]_vars

\* a call that went through every step, the signature check included
C1_Witness ==
    /\ pc = "responded"
    /\ outcome.status = "returned"
    /\ verify_calls = <<TRUE>>
    /\ Len(handler_calls) = 1
    /\ response # NoResponse

\* C2: with check_signatures on, a callback has been invoked or a response
\* returned only if verify() was invoked for this request and returned
\* without error, whatever the headers of the request are.
C2_NoHandlerUnverified ==
    (config.check_signatures /\ (handler_calls # <<>> \/ outcome.status = "returned"))
        => verify_calls = <<TRUE>>

\* with check_signatures on, a callback was invoked after a successful check
C2_Witness ==
    /\ config.check_signatures
    /\ handler_calls # <<>>
    /\ verify_calls = <<TRUE>>
    /\ context.signature # None

\* what dispatch() does with a decoded request once the signature step is
\* behind it, given what the callback did: a function of the request, the
\* definition and the correlation id only
AfterVerify(req, def, correlation_id, handler_result) ==
    IF ~handler_result.ok
    THEN [status |-> "raised", error |-> dispatch_except(handler_result.exc, correlation_id)]
    ELSE LET b == BuildResponse(req, def)
         IN  IF ~b.ok
             THEN [status |-> "raised", error |-> dispatch_except(b.exc, correlation_id)]
             ELSE LET j == to_json(b.value, def)
                  IN  IF ~j.ok
                      THEN [status |-> "raised", error |-> dispatch_except(j.exc, correlation_id)]
                      ELSE [status |-> "returned", json |-> j.value]

\* the parts of an outcome the caller of dispatch() sees
Visible(o) ==
    IF o.status = "raised" THEN [status |-> "raised", error |-> o.error] ELSE o

\* the request would fail verification: a header is missing
WouldFailVerification == context.signature = None \/ context.date = None

\* C3: with check_signatures off, verify() is never invoked, and a request is
\* routed and answered as a validly signed one is: once decoded, its callback
\* is the one of its class and the outcome of the call is the one that
\* follows a passed check, whatever the signature and date headers are.
C3_SkipVerify ==
    ~config.check_signatures =>
        /\ verify_calls = <<>>
        /\ pc # "verified"
        /\ (Terminal /\ request # NoRequest) =>
              /\ Len(handler_calls) = 1
              /\ handler_calls[1].handler = HandlerFor(request)
              /\ Visible(outcome) =
                    AfterVerify(request, definition, context.correlation_id, handler_calls[1].result)

\* with check_signatures off, a request without signature was answered
C3_Witness ==
    /\ ~config.check_signatures
    /\ WouldFailVerification
    /\ pc = "responded"
    /\ handler_calls # <<>>

\* C4: a call invokes at most one callback, at most once; a call that returns
\* a response invoked exactly the callback of the lifecycle phase named in
\* the request body, once.
C4_OneHandler ==
    /\ Len(handler_calls) <= 1
    /\ outcome.status = "returned" =>
          /\ Len(handler_calls) = 1
          /\ handler_calls[1].handler = HandlerOfPhase(context.body.lifecycle)
          /\ handler_calls[1].result.ok

\* an INSTALL request was answered after handle_install ran
C4_Witness ==
    /\ outcome.status = "returned"
    /\ context.body.lifecycle = "INSTALL"
    /\ Len(handler_calls) = 1
    /\ handler_calls[1].handler = "handle_install"

C6_HandlerErrorIsInternal ==
    ( /\ handler_calls # <<>>
      /\ ~handler_calls[1].result.ok
      /\ ~IsInstance(handler_calls[1].result.exc.cls, "SmartAppError") )
        => (pc = "failed" /\ outcome.error.cls = "InternalError")

\* C7 as claimed: a failure of decoding yields BadRequestError and a failure
\* of signature verification yields SignatureError.
C7_ClassifiedByOrigin ==
    pc = "failed" =>
        /\ outcome.step = "received" => outcome.error.cls = "BadRequestError"
        /\ outcome.step = "decoded" => outcome.error.cls = "SignatureError"

\* C8 as claimed, for the BadRequestErrors dispatch builds itself: the
\* failure is one of the caller's input, that is, of decoding the body or of
\* resolving the page id against a definition that has pages; it is not one
\* of a callback or of a definition without pages.
C8_BadRequestOnlyForInput ==
    ( /\ pc = "failed"
      /\ outcome.error.cls = "BadRequestError"
      /\ ~IsInstance(outcome.caught.cls, "SmartAppError") )
        => \/ outcome.step = "received"
           \/ outcome.step = "routed" /\ ~NoConfigPages(definition)

\* the step that builds the response has run, successfully or not
BuildRan == pc \in {"built", "responded"} \/ (pc = "failed" /\ outcome.step = "routed")

\* the call is a CONFIGURATION/PAGE request whose pageId is the integer p
PageRequested(p) ==
    /\ request.type = "ConfigurationRequest"
    /\ request.phase = "PAGE"
    /\ PyIntOk(request.page_id)
    /\ PyInt(request.page_id) = p

\* number of pages of the definition
PageCount == IF definition.config_pages.isNone THEN 0 ELSE Len(definition.config_pages.items)

\* the decimal text of a single-digit number
Digit(n) == <<DigitChars[n + 1]>>

\* C9: on a definition with N >= 1 pages and for every page index p in 1..N,
\* the page request is answered with a page whose pageId is p, whose
\* previousPageId is p-1 if p > 1 and None otherwise, whose nextPageId is p+1
\* if p < N and None otherwise, whose complete flag is p >= N, and whose name
\* and sections are those of the p-th page of the definition.
C9_PageResponse ==
    \A p \in 1..PageCount :
        (BuildRan /\ PageRequested(p)) =>
            /\ response.type = "ConfigurationPageResponse"
            /\ response.configuration_data.page =
                  [page_id |-> Digit(p),
                   name |-> definition.config_pages.items[p].page_name,
                   previous_page_id |-> IF p > 1 THEN Digit(p - 1) ELSE None,
                   next_page_id |-> IF p < PageCount THEN Digit(p + 1) ELSE None,
                   complete |-> (p >= PageCount),
                   sections |-> definition.config_pages.items[p].sections]

\* the last page of a definition with several pages was built
C9_Witness ==
    /\ pc = "built"
    /\ PageCount > 1
    /\ PageRequested(PageCount)
    /\ response.configuration_data.page.complete
    /\ response.configuration_data.page.next_page_id = None

\* C10 as claimed, on a definition that has N >= 1 pages: a page request
\* whose index is below 1 or above N fails with "Page not found" and no page
\* response is built.
C10_OutOfRangeNotFound ==
    \A p \in (0 - (MaxPages + 1))..(MaxPages + 2) :
        (BuildRan /\ PageCount >= 1 /\ PageRequested(p) /\ (p < 1 \/ p > PageCount)) =>
            /\ pc = "failed"
            /\ outcome.caught.message.fmt = "Page not found: %d"
            /\ response = NoResponse

\* C11: a CONFIGURATION request with sub-phase INITIALIZE is answered with
\* an init response made of the definition's id, name, description and
\* permissions that names page 1 as firstPageId; one with sub-phase PAGE is
\* answered with what the configuration manager makes of the page whose
\* index is the integer value of the request's pageId.
C11_ConfigRequest ==
    (BuildRan /\ request.type = "ConfigurationRequest") =>
        /\ request.phase = "INITIALIZE" =>
              /\ pc # "failed"
              /\ response =
                    [type |-> "ConfigurationInitResponse",
                     configuration_data |->
                        [initialize |-> [id |-> definition.id,
                                         name |-> definition.name,
                                         description |-> definition.description,
                                         permissions |-> definition.permissions,
                                         first_page_id |-> <<"1">>]]]
              /\ pc = "responded" =>
                    outcome.json.json.configurationData.initialize.firstPageId = <<"1">>
        /\ request.phase = "PAGE" =>
              \A p \in 0..(MaxPages + 2) :
                  request.page_id = Digit(p) =>
                      IF handle_page(definition, p).ok
                      THEN pc # "failed" /\ response = handle_page(definition, p).value
                      ELSE pc = "failed" /\ outcome.caught = handle_page(definition, p).exc

\* an INITIALIZE request on a definition with two pages was answered
C11_Witness ==
    /\ pc = "responded"
    /\ request.type = "ConfigurationRequest"
    /\ request.phase = "INITIALIZE"
    /\ PageCount = 2
    /\ outcome.json.json.configurationData.initialize.firstPageId = <<"1">>

\* C12 as claimed: for every lifecycle phase other than CONFIGURATION the
\* response of a successful dispatch is a fixed, content-free acknowledgment:
\* every member of it is empty and it is the response the dispatcher would
\* give with any other definition.
C12_FixedAcknowledgment ==
    (pc = "responded" /\ request.lifecycle # "CONFIGURATION") =>
        /\ \A f \in DOMAIN outcome.json.json : outcome.json.json[f] = EmptyDict
        /\ \A d \in DefinitionChoices :
              /\ BuildResponse(request, d).ok
              /\ outcome.json.json = unstructure(BuildResponse(request, d).value)

\* the acknowledgment of each phase on the wire
Acknowledgment(phase) ==
    CASE phase = "INSTALL" -> [installData |-> <<>>]
      [] phase = "UPDATE" -> [updateData |-> <<>>]
      [] phase = "UNINSTALL" -> [uninstallData |-> <<>>]
      [] phase = "OAUTH_CALLBACK" -> [oAuthCallbackData |-> <<>>]
      [] phase = "EVENT" -> [eventData |-> <<>>]

\* C12 as amended: for INSTALL, UPDATE, UNINSTALL, OAUTH_CALLBACK and EVENT
\* the response of a successful dispatch is the fixed acknowledgment of the
\* phase, one empty member; for CONFIRMATION it is the target URL of the
\* definition and nothing else.
C12_Acknowledgment ==
    (pc = "responded" /\ context.body.lifecycle # "CONFIGURATION") =>
        IF context.body.lifecycle = "CONFIRMATION"
        THEN outcome.json.json = [targetUrl |-> definition.target_url]
        ELSE outcome.json.json = Acknowledgment(context.body.lifecycle)

\* an INSTALL request was acknowledged
C12_Witness ==
    /\ pc = "responded"
    /\ context.body.lifecycle = "INSTALL"
    /\ outcome.json.json = [installData |-> <<>>]

\* a call of deserialize_datetime has just been made
DeserializeStep == codec_pc = "idle" /\ codec_pc' = "deserialize_datetime"

IsEpochSentinel(s) == s = <<"1", "9", "7", "0", "-", "0", "1", "-", "0", "1", "T", "0", "0", ":", "0", "0", ":", "0", "0", "Z">> \/ s = <<"1", "9", "7", "0", "-", "0", "1", "-", "0", "1", "T", "0", "0", ":", "0", "0", ":", "0", "0", ".", "0", "0", "0", "Z">>

\* C14: deserialize_datetime decides in a fixed order: an epoch sentinel, in
\* either precision, decodes to the current instant; otherwise a string of 24
\* characters is parsed at millisecond precision in UTC; otherwise a string of
\* 20 characters is parsed at second precision in UTC; a string of any other
\* length fails with the unknown datetime format error.
C14_DecodeOrder ==
    [][DeserializeStep =>
        LET s == codec_in'
            r == codec_out'
        IN  IF IsEpochSentinel(s)
            THEN r.ok /\ r.value = NowChoices[clock]
            ELSE IF Len(s) = 24
            THEN IF r.ok
                 THEN /\ r.value.utcoffset = 0
                      /\ r.value.microsecond = 1000 * DigitsToNat(SubSeq(s, 21, 23))
                      /\ ArrowFormat(r.value, DATETIME_MS_FORMAT) = s
                 ELSE r.exc.message.fmt # "Unknown datetime format: %s"
            ELSE IF Len(s) = 20
            THEN IF r.ok
                 THEN /\ r.value.utcoffset = 0
                      /\ r.value.microsecond = 0
                      /\ ArrowFormat(r.value, DATETIME_SEC_FORMAT) = s
                 ELSE r.exc.message.fmt # "Unknown datetime format: %s"
            ELSE /\ ~r.ok
                 /\ r.exc.cls = "ValueError"
                 /\ r.exc.message = Message("Unknown datetime format: %s", s)]_vars

\* the second-precision sentinel decoded at a later moment gives that moment
C14_Witness ==
    /\ codec_pc = "deserialize_datetime"
    /\ codec_in = <<"1", "9", "7", "0", "-", "0", "1", "-", "0", "1", "T", "0", "0", ":", "0", "0", ":", "0", "0", "Z">>
    /\ clock = 2
    /\ codec_out = Returns(Arrow(2026, 11, 3, 3, 0, 1, 0, 0 - 5))

\* the timestamp with its sub-millisecond part cut off
TruncatedToMs(a) == [a EXCEPT !.microsecond = (a.microsecond \div 1000) * 1000]

\* C15: serialize_datetime always gives the 24-character millisecond form in
\* UTC, whatever the precision or time zone of the value, so a timestamp decoded
\* from a 20-character second-precision string is encoded again with .000 as
\* its millisecond part.
C15_AlwaysMilliseconds ==
    /\ codec_pc \in {"serialize_datetime", "reserialize_datetime"} =>
          /\ Len(codec_out) = 24
          /\ MatchesFormat(codec_out, DATETIME_MS_FORMAT)
    /\ codec_pc = "serialize_datetime" =>
          /\ arrow_get(codec_out, DATETIME_MS_FORMAT).ok
          /\ ArrowEq(arrow_get(codec_out, DATETIME_MS_FORMAT).value, TruncatedToMs(codec_in))
          /\ codec_in = Arrow(2016, 12, 31, 23, 30, 0, 0, 0 - 1) =>
                 codec_out = <<"2", "0", "1", "7", "-", "0", "1", "-", "0", "1", "T", "0", "0", ":", "3", "0", ":", "0", "0", ".", "0", "0", "0", "Z">>
    /\ (codec_pc = "reserialize_datetime" /\ Len(codec_in) = 20 /\ ~IsEpochSentinel(codec_in)) =>
          codec_out = SubSeq(codec_in, 1, 19) \o <<".", "0", "0", "0", "Z">>

C15_Witness ==
    /\ codec_pc = "reserialize_datetime"
    /\ codec_in = <<"2", "0", "1", "7", "-", "0", "9", "-", "1", "3", "T", "0", "4", ":", "1", "8", ":", "1", "2", "Z">>
    /\ codec_out = <<"2", "0", "1", "7", "-", "0", "9", "-", "1", "3", "T", "0", "4", ":", "1", "8", ":", "1", "2", ".", "0", "0", "0", "Z">>

\* decoding the body of this call failed on a discriminator that is not a
\* member: the lifecycle of the request or the valueType of a config value
UnknownDiscriminator ==
    /\ context.body.json = "object"
    /\ \/ context.body.lifecycle \notin LifecyclePhase
       \/ /\ context.body.wellformed
          /\ CarriesConfig(context.body.lifecycle)
          /\ context.body.value_type \notin ConfigValueType

\* C13: a discriminator that is not a recognized member, at any union site a
\* request passes through, is a failure that names the kind and leaves
\* dispatch as BadRequestError, never a decoded default variant.
C13_UnknownDiscriminatorIsBadRequest ==
    (Terminal /\ UnknownDiscriminator) =>
        /\ pc = "failed"
        /\ outcome.step = "received"
        /\ outcome.error.cls = "BadRequestError"
        /\ outcome.error.message.fmt \in {"Unknown lifecycle phase", "Unknown config value type"}

\* an object was encoded and the text decoded again
RoundTripDone == codec_pc = "from_text"

\* the epoch instant: serialized, it is the sentinel that decodes to now
IsEpoch(a) == ArrowEq(a, Arrow(1970, 1, 1, 0, 0, 0, 0, 0))

\* the object has the discriminator its class is registered under
Registered(x) ==
    CASE UnionOf(x.cls) = "LifecycleRequest" -> x.tag \in LifecyclePhase /\ REQUEST_BY_PHASE(x.tag) = x.cls
      [] UnionOf(x.cls) = "ConfigValue" -> x.tag \in ConfigValueType /\ CONFIG_VALUE_BY_TYPE(x.tag) = x.cls
      [] UnionOf(x.cls) = "ConfigSetting" -> x.tag \in ConfigSettingType /\ CONFIG_SETTING_BY_TYPE(x.tag) = x.cls

\* C16 as stated: for every instance x of a class of LifecycleRequest,
\* ConfigValue or ConfigSetting, an EventRequest with any timestamp included,
\* decode(encode(x)) == x, in JSON and in YAML.
C16_RoundTrip ==
    RoundTripDone => codec_out.ok /\ VariantEq(codec_out.value, codec_in.obj)

\* C16: the round trip gives back x for every instance that has the
\* discriminator of its class and whose event timestamp, if any, is a whole
\* number of milliseconds and not the epoch instant.
C16_RoundTripOfExactTimes ==
    (/\ RoundTripDone
     /\ Registered(codec_in.obj)
     /\ ~codec_in.obj.event_time.isNone =>
            /\ codec_in.obj.event_time.val.microsecond % 1000 = 0
            /\ ~IsEpoch(codec_in.obj.event_time.val))
        => codec_out.ok /\ VariantEq(codec_out.value, codec_in.obj)

\* an event time given in another time zone comes back as the same instant
C16_Witness ==
    /\ RoundTripDone
    /\ codec_in.format = "yaml"
    /\ codec_in.obj = Variant("EventRequest", "EVENT", SomeTime(Arrow(2017, 9, 12, 23, 18, 12, 469000, 0 - 5)))
    /\ codec_out = Returns(Variant("EventRequest", "EVENT", SomeTime(Arrow(2017, 9, 13, 4, 18, 12, 469000, 0))))

\* names a caller looks headers up by
LookupNames ==
    { <<"d", "a", "t", "e">>, <<"D", "a", "t", "e">>, <<"D", "A", "T", "E">>, <<"a", "u", "t", "h", "o", "r", "i", "z", "a", "t", "i", "o", "n">>, <<"A", "U", "T", "H", "O", "R", "I", "Z", "A", "T", "I", "O", "N">>,
      <<"x", "-", "s", "t", "-", "c", "o", "r", "r", "e", "l", "a", "t", "i", "o", "n">>, <<"X", "-", "S", "t", "-", "C", "o", "r", "r", "e", "l", "a", "t", "i", "o", "n">>, <<"X", "-", "S", "T", "-", "C", "O", "R", "R", "E", "L", "A", "T", "I", "O", "N">>, <<"m", "i", "s", "s", "i", "n", "g">> }

\* two names that differ at most in the case of their letters
SameName(a, b) == Len(a) = Len(b) /\ \A i \in 1..Len(a) : LowerChar(a[i]) = LowerChar(b[i])

\* what the headers passed at construction hold under a name, whatever its
\* case: None when no header has the name or the last one that has it is
\* null, empty or all whitespace
HeaderValue(headers, name) ==
    LET matching == {i \in 1..Len(headers) : SameName(headers[i].key, name)}
        last == CHOOSE i \in matching : \A j \in matching : j <= i
    IN  IF matching = {} THEN None
        ELSE IF headers[last].value = None THEN None
        ELSE IF \A k \in 1..Len(headers[last].value) : IsWhitespace(headers[last].value[k]) THEN None
        ELSE headers[last].value

\* C17: header(name) ignores the case of the stored and of the looked-up name
\* and gives None for a header that is missing or whose value is null, empty
\* or whitespace; correlation_id, signature and date are header("x-st-correlation"),
\* header("authorization") and header("date") of the headers given at
\* construction (checked on the context a call has just been given).
C17_HeaderLookup ==
    pc = "received" =>
        /\ \A name \in LookupNames : header(context.normalized, name) = HeaderValue(context.headers, name)
        /\ context.correlation_id = HeaderValue(context.headers, <<"x", "-", "s", "t", "-", "c", "o", "r", "r", "e", "l", "a", "t", "i", "o", "n">>)
        /\ context.signature = HeaderValue(context.headers, <<"a", "u", "t", "h", "o", "r", "i", "z", "a", "t", "i", "o", "n">>)
        /\ context.date = HeaderValue(context.headers, <<"d", "a", "t", "e">>)

C17_Witness ==
    /\ pc = "received"
    /\ HasKey(context.headers, <<"D", "a", "t", "e">>)
    /\ HasKey(context.headers, <<"X", "-", "S", "T", "-", "C", "O", "R", "R", "E", "L", "A", "T", "I", "O", "N">>)
    /\ header(context.normalized, <<"D", "A", "T", "E">>) = DateValue
    /\ context.date = DateValue
    /\ context.correlation_id = None

\* what the decoding of a body that fails lets dispatch() raise
DecodeFailures(ctx) ==
    { dispatch_except(r.exc, ctx.correlation_id) : r \in {d \in from_json(ctx.body) : ~d.ok} }

\* what a failed signature check lets dispatch() raise
VerifyFailures(ctx, cfg) ==
    { dispatch_except(r.exc, ctx.correlation_id) :
        r \in {v \in {verify(ctx, cfg, env) : env \in VerifyEnvChoices} : ~v.ok} }

\* The outcome of a finished call as its own inputs determine it: the request
\* context, the definition and config of the dispatcher, what verify() did
\* and what the callback did.  Nothing of an earlier call is referred to.
OutcomeOfThisCall(ctx, def, cfg, req, verified, handled, o) ==
    IF req = NoRequest
    THEN /\ verified = <<>> /\ handled = <<>>
         /\ o.status = "raised" /\ o.error \in DecodeFailures(ctx)
    ELSE /\ Returns(req) \in from_json(ctx.body)
         /\ IF cfg.check_signatures
            THEN /\ Len(verified) = 1
                 /\ \E env \in VerifyEnvChoices : verify(ctx, cfg, env).ok = verified[1]
            ELSE verified = <<>>
         /\ IF verified = <<FALSE>>
            THEN /\ handled = <<>>
                 /\ o.status = "raised" /\ o.error \in VerifyFailures(ctx, cfg)
            ELSE /\ Len(handled) = 1
                 /\ handled[1].handler = HandlerFor(req)
                 /\ Visible(o) = AfterVerify(req, def, ctx.correlation_id, handled[1].result)

\* C19: a call leaves definition and config of the dispatcher as they were
\* (its callbacks and config manager are fixed operators here), and the outcome
\* of a call is the one its own context, callback behaviour and verification
\* result give, whether no call, a successful call or a failed call came before.
C19_Stateless ==
    [][/\ definition' = definition
       /\ config' = config
       /\ Terminal' =>
             OutcomeOfThisCall(context', definition', config', request', verify_calls',
                               handler_calls', outcome')]_vars

\* a call that verified and answered after an earlier call had failed
C19_Witness ==
    /\ previous_call = "raised"
    /\ pc = "responded"
    /\ verify_calls = <<TRUE>>

\* the callback of the request's phase was invoked, once, and returned
HandlerReturned ==
    /\ Len(handler_calls) = 1
    /\ handler_calls[1].handler = HandlerFor(request)
    /\ handler_calls[1].result.ok

\* C20: in every lifecycle phase the callback of the application is invoked
\* first: the dispatcher's own logic for the phase (the confirmation response,
\* the config manager, the acknowledgment) has run, or failed, only in a call
\* whose callback has been invoked and has returned.
C20_HandlerFirst ==
    /\ (response # NoResponse \/ BuildRan) => HandlerReturned
    /\ (pc = "failed" /\ handler_calls # <<>> /\ ~handler_calls[1].result.ok) =>
           response = NoResponse /\ outcome.step \in {"verified", "skipped"}

C20_Witness ==
    /\ pc = "built"
    /\ request.type = "ConfirmationRequest"
    /\ response = [type |-> "ConfirmationResponse", target_url |-> definition.target_url]
    /\ handler_calls = <<HandlerCall("handle_confirmation", Returns(TRUE))>>

\* the callers fetching a key from the key server
Fetching(k) == {c \in Callers : callers[c].pc = "fetching" /\ callers[c].key = k}

\* C18: the key cache is single-flight per key.  While a fetch of a key is in
\* flight no other caller fetches that key, no caller is ever handed and no
\* lookup ever finds an entry without its key material, and a caller asking
\* for a key that is not in flight goes ahead whatever other keys are in flight.
C18_SingleFlight ==
    /\ \A k \in KeyIds :
          /\ Cardinality(Fetching(k)) = IF k \in in_flight THEN 1 ELSE 0
          /\ key_cache[k].present => key_cache[k] = Entry(KeyMaterial(k), TRUE)
    /\ \A c \in Callers :
          /\ callers[c].pc = "done" => callers[c].entry = Entry(KeyMaterial(callers[c].key), TRUE)
          /\ callers[c].pc = "waiting" => callers[c].key \in in_flight \/ ENABLED Wake(c)
          /\ callers[c].pc = "idle" =>
                \A k \in KeyIds :
                    (k \notin in_flight /\ (key_cache[k].present \/ fetches[k] < MaxFetches))
                        => ENABLED (Hit(c, k) \/ Miss(c, k))

\* one caller fetches a key, a second waits for that flight, and a third has
\* been served another key meanwhile
C18_Witness ==
    /\ callers[1] = Calling("fetching", "key-a")
    /\ callers[2] = Calling("waiting", "key-a")
    /\ callers[3] = Got("key-b", Entry(KeyMaterial("key-b"), TRUE))
    /\ fetches["key-a"] = 1

\* the attribute of Event that holds the payload of each event type
PayloadAttribute(event_type) ==
    CASE event_type = "DEVICE_EVENT" -> "device_event"
      [] event_type = "DEVICE_LIFECYCLE_EVENT" -> "device_lifecycle_event"
      [] event_type = "DEVICE_HEALTH_EVENT" -> "device_health_event"
      [] event_type = "DEVICE_COMMANDS_EVENT" -> "device_commands_event"
      [] event_type = "MODE_EVENT" -> "mode_event"
      [] event_type = "TIMER_EVENT" -> "timer_event"
      [] event_type = "SCENE_LIFECYCLE_EVENT" -> "scene_lifecycle_event"
      [] event_type = "SECURITY_ARM_STATE_EVENT" -> "security_arm_state_event"
      [] event_type = "HUB_HEALTH_EVENT" -> "hub_health_event"
      [] event_type = "INSTALLED_APP_LIFECYCLE_EVENT" -> "installed_app_lifecycle_event"
      [] event_type = "WEATHER_EVENT" -> "weather_event"

\* the positions in events of the events of a type whose payload is there
Selected(events, event_type) ==
    {i \in 1..Len(events) :
        /\ events[i].event_type = event_type
        /\ ~events[i][PayloadAttribute(event_type)].isNone}

\* the n-th smallest member of a set of positions
NthOf(positions, n) == CHOOSE i \in positions : Cardinality({j \in positions : j <= i}) = n

\* C21: EventData.for_type(t) gives, in the order of the events list, exactly
\* the payload attribute of type t of every event whose event_type is t and
\* whose payload is not None, and the empty list for a type no event has.
C21_ForType ==
    codec_pc = "for_type" =>
        LET selected == Selected(codec_in.events, codec_in.event_type)
        IN  /\ Len(codec_out) = Cardinality(selected)
            /\ \A n \in 1..Len(codec_out) :
                  codec_out[n] = codec_in.events[NthOf(selected, n)][PayloadAttribute(codec_in.event_type)]
            /\ (\A i \in 1..Len(codec_in.events) : codec_in.events[i].event_type # codec_in.event_type)
                  => codec_out = <<>>

\* two timer events around a device event: the two timer payloads, in order
C21_Witness ==
    /\ codec_pc = "for_type"
    /\ codec_in.event_type = "TIMER_EVENT"
    /\ Len(codec_in.events) = 2
    /\ codec_in.events[1] = Event("TIMER_EVENT", "timer_event", Payload(<<Item("k", "w")>>))
    /\ codec_in.events[2] = Event("TIMER_EVENT", "timer_event", Payload(<<>>))
    /\ codec_out = <<Payload(<<Item("k", "w")>>), Payload(<<>>)>>

\* C22: EventData.filter(t, predicate) gives, order kept, exactly the
\* elements of for_type(t) that satisfy the predicate, and every element of
\* for_type(t) when it is called with no predicate.
C22_Filter ==
    codec_pc = "filter" =>
        LET all == EventData_for_type(codec_in.events, codec_in.event_type)
            kept == {i \in 1..Len(all) :
                        codec_in.predicate = "None" \/ PredicateHolds(codec_in.predicate, all[i])}
        IN  /\ Len(codec_out) = Cardinality(kept)
            /\ \A n \in 1..Len(codec_out) : codec_out[n] = all[NthOf(kept, n)]

\* the InstalledApp embedded in the request the accessor was called on
EmbeddedApp ==
    IF codec_in.request.type = "InstallRequest" THEN codec_in.request.install_data.installed_app
    ELSE codec_in.request.update_data.installed_app

\* the config entries under the key asked for, none if the key is not there
EntriesAsked ==
    IF HasKey(EmbeddedApp.config, codec_in.key) THEN Lookup(EmbeddedApp.config, codec_in.key) ELSE <<>>

\* the first entry under the key is a string entry
FirstIsString == EntriesAsked # <<>> /\ EntriesAsked[1].value_type = "STRING"

FirstString == EntriesAsked[1].string_config.value

\* C23: an accessor of InstallRequest or UpdateRequest gives what the same
\* accessor of the embedded InstalledApp gives: as_str the string of the first
\* entry under the key, as_int and as_float that string as a number, as_bool
\* whether that string is non-empty, as_devices the device_config of every
\* entry under the key, in order.
C23_Accessors ==
    codec_pc = "accessor" =>
        /\ codec_out = InstalledApp_method(codec_in.name, EmbeddedApp, codec_in.key)
        /\ FirstIsString =>
              /\ codec_in.name = "as_str" => codec_out = Returns(FirstString)
              /\ codec_in.name = "as_bool" => codec_out = Returns(FirstString # <<>>)
              /\ (codec_in.name = "as_int" /\ AllDigits(FirstString)) =>
                     codec_out = Returns(DigitsToNat(FirstString))
              /\ (codec_in.name = "as_int" /\ FirstString = <<" ", "-", "3", "0", " ">>) => codec_out = Returns(0 - 30)
              /\ (codec_in.name = "as_float" /\ AllDigits(FirstString)) =>
                     codec_out = Returns([digits |-> DigitsToNat(FirstString), scale |-> 0])
              /\ (codec_in.name = "as_float" /\ FirstString = <<"1", ".", "5", "0">>) =>
                     codec_out = Returns([digits |-> 15, scale |-> 1])
              /\ (codec_in.name \in {"as_int", "as_float"} /\ FirstString \in {<<"t", "r", "u", "e">>, <<"f", "a", "l", "s", "e">>, <<>>}) =>
                     ~codec_out.ok /\ codec_out.exc.cls = "ValueError"
        /\ (codec_in.name = "as_devices" /\ HasKey(EmbeddedApp.config, codec_in.key)
              /\ \A i \in 1..Len(EntriesAsked) : EntriesAsked[i].value_type = "DEVICE") =>
                 /\ codec_out.ok
                 /\ Len(codec_out.value) = Len(EntriesAsked)
                 /\ \A i \in 1..Len(EntriesAsked) : codec_out.value[i] = EntriesAsked[i].device_config

\* as_int on an update request whose config before the update was another
C23_Witness ==
    /\ codec_pc = "accessor"
    /\ codec_in.request.type = "UpdateRequest"
    /\ codec_in.name = "as_int"
    /\ codec_in.key = "minutes"
    /\ Lookup(codec_in.request.update_data.previous_config, "minutes") = <<StringConfigValue(<<" ", "-", "3", "0", " ">>)>>
    /\ codec_out = Returns(5)

\* C24: the camelCase renaming is a function that is injective over the
\* attributes of every class: no two attributes of a class get the same wire
\* name, and encoding and decoding use the same table of names.
C24_RenamingInjective ==
    codec_pc = "hooks" =>
        /\ codec_mid = codec_out
        /\ Len(codec_mid) = Len(fields(codec_in.cls))
        /\ \A i \in 1..Len(codec_mid) :
              /\ codec_mid[i].key = fields(codec_in.cls)[i]
              /\ codec_mid[i].value = _to_camel_case(codec_mid[i].key)
        /\ \A i, j \in 1..Len(codec_mid) :
              codec_mid[i].value = codec_mid[j].value => i = j

\* the hooks of Event, whose attributes share their first component
C24_Witness ==
    /\ codec_pc = "hooks"
    /\ codec_in.cls = "Event"
    /\ \E i \in 1..Len(codec_out) :
          /\ codec_out[i].key = <<"d", "e", "v", "i", "c", "e", "_", "l", "i", "f", "e", "c", "y", "c", "l", "e", "_", "e", "v", "e", "n", "t">>
          /\ codec_out[i].value = <<"d", "e", "v", "i", "c", "e", "L", "i", "f", "e", "c", "y", "c", "l", "e", "E", "v", "e", "n", "t">>
    /\ \E i \in 1..Len(codec_out) :
          /\ codec_out[i].key = <<"d", "e", "v", "i", "c", "e", "_", "e", "v", "e", "n", "t">>
          /\ codec_out[i].value = <<"d", "e", "v", "i", "c", "e", "E", "v", "e", "n", "t">>

\* the number of pages of the definition under negotiation
PagesNegotiated ==
    IF NoConfigPages(codec_in.definition) THEN 0 ELSE Len(codec_in.definition.config_pages.items)

\* C25: over a definition with N >= 1 pages, the firstPageId of the
\* INITIALIZE response is a page id that PAGE resolves, and following
\* nextPageId visits the pages 1..N in order: the k-th PAGE request is
\* answered with page k, which offers page k + 1 while k < N and, for k = N,
\* is complete and offers no next page, so that the negotiation ends after
\* exactly N PAGE requests.
C25_Negotiation ==
    (codec_pc = "negotiating" /\ codec_in.followed /\ PagesNegotiated >= 1) =>
        /\ codec_out.ok
        /\ codec_out.value.configuration_data.initialize.first_page_id = PyStr(1)
        /\ Len(codec_mid) <= PagesNegotiated
        /\ \A k \in 1..Len(codec_mid) :
              /\ codec_mid[k].ok
              /\ LET page == codec_mid[k].value.configuration_data.page
                 IN  /\ page.page_id = PyStr(k)
                     /\ page.name = codec_in.definition.config_pages.items[k].page_name
                     /\ page.sections = codec_in.definition.config_pages.items[k].sections
                     /\ page.complete = (k = PagesNegotiated)
                     /\ page.next_page_id = IF k = PagesNegotiated THEN None ELSE PyStr(k + 1)
        /\ Len(codec_mid) < PagesNegotiated =>
              /\ Offered # None
              /\ _handle_config_request(ConfigRequestData("PAGE", Offered), codec_in.definition).ok
        /\ Len(codec_mid) = PagesNegotiated => Offered = None

\* a negotiation over MaxPages pages that reached the complete page
C25_Witness ==
    /\ codec_pc = "negotiating"
    /\ codec_in.followed
    /\ PagesNegotiated = MaxPages
    /\ Len(codec_mid) = MaxPages
    /\ codec_mid[MaxPages].ok
    /\ codec_mid[MaxPages].value.configuration_data.page.complete
    /\ Offered = None

\* the config manager has failed in this call
ManagerFailed == pc = "failed" /\ outcome.step = "routed" /\ request.type = "ConfigurationRequest"

\* C26: for a CONFIGURATION request handle_configuration has been invoked,
\* once, and has returned by the time the config manager runs; a PAGE request
\* that fails in the manager (page not found, pageId not a number, no page
\* configured) has invoked it exactly once before failing.
C26_ConfigurationHandlerFirst ==
    /\ (request.type = "ConfigurationRequest" /\ BuildRan) =>
           handler_calls = <<HandlerCall("handle_configuration", Returns(TRUE))>>
    /\ ManagerFailed =>
           /\ request.phase = "PAGE"
           /\ outcome.caught.cls = "ValueError"
           /\ \/ ~PyIntOk(request.page_id)
              \/ NoConfigPages(definition)
              \/ PyListPos(definition.config_pages.items, PyInt(request.page_id) - 1) = 0
           /\ Len(handler_calls) = 1
           /\ handler_calls[1].handler = "handle_configuration"
           /\ handler_calls[1].result.ok

\* a PAGE request with a pageId that is not a number, failed in the manager
\* after the callback returned
C26_Witness ==
    /\ ManagerFailed
    /\ request.phase = "PAGE"
    /\ request.page_id = <<"x">>
    /\ ~NoConfigPages(definition)
    /\ handler_calls = <<HandlerCall("handle_configuration", Returns(TRUE))>>

\* the SmartAppErrors a config manager of the application's own may raise:
\* of every kind, with no correlation id or with one of its choosing
ManagerErrors ==
    { SmartAppError(kind, Message("manager error", <<>>), id) :
          kind \in SmartAppErrorKinds, id \in {None, OtherCorrelationValue} }

\* C27: a SmartAppError (of any kind, the base class included) raised inside
\* dispatch by the verifier, a callback or the config manager leaves dispatch
\* as it is: the same kind, message and correlation id.
C27_SmartAppErrorUnchanged ==
    /\ (pc = "failed" /\ IsInstance(outcome.caught.cls, "SmartAppError")) =>
           /\ outcome.error = outcome.caught
           /\ outcome.step = "decoded" =>
                  \E env \in VerifyEnvChoices :
                      LET r == verify(context, config, env)
                      IN  ~r.ok /\ outcome.error = r.exc
           /\ outcome.step \in {"verified", "skipped"} =>
                  outcome.error = handler_calls[Len(handler_calls)].result.exc
    /\ pc = "routed" =>
           \A e \in ManagerErrors : dispatch_except(e, context.correlation_id) = e

\* a callback raised a SignatureError carrying an id of its own in a request
\* that has another correlation id
C27_Witness ==
    /\ pc = "failed"
    /\ outcome.step \in {"verified", "skipped"}
    /\ context.correlation_id # None
    /\ context.correlation_id # OtherCorrelationValue
    /\ outcome.error = SignatureError(Message("handler signature", <<>>), OtherCorrelationValue)

\* C28: every dispatch call has exactly one outcome: the JSON text of a
\* response, or a SmartAppError (or a subclass of it).  No exception of
\* another class raised while decoding, verifying, in a callback, in the
\* config manager or while encoding leaves dispatch, a call that failed
\* returns no response, and a call that has its outcome takes no further step.
C28_OneOutcome ==
    /\ ~Terminal => outcome = Pending
    /\ pc = "responded" =>
           /\ outcome.status = "returned"
           /\ to_json(response, definition) = Returns(outcome.json)
    /\ pc = "failed" =>
           /\ outcome.status = "raised"
           /\ outcome.error.cls \in SmartAppErrorKinds
           /\ outcome.step \in {"received", "decoded", "verified", "skipped", "routed", "built"}
    /\ Terminal => ~ENABLED (Decode \/ Verify \/ SkipVerify \/ Route \/ Build \/ Encode)

\* the response was built but its encoding failed with a TypeError: the call
\* raises an InternalError and returns nothing
C28_Witness ==
    /\ pc = "failed"
    /\ outcome.step = "built"
    /\ response # NoResponse
    /\ outcome.caught.cls = "TypeError"
    /\ outcome.error.cls = "InternalError"

\* C29: decoding comes before verification, so a call whose body does not
\* decode fails with a BadRequestError and the verifier has not been invoked,
\* whatever the signature and date headers and check_signatures are; a
\* SignatureError is the outcome only of a call whose body decoded.
C29_DecodeFailureIsBadRequest ==
    /\ (pc = "failed" /\ outcome.step = "received") =>
           /\ outcome.error.cls = "BadRequestError"
           /\ verify_calls = <<>>
           /\ request = NoRequest
    /\ (pc = "failed" /\ outcome.error.cls = "SignatureError") =>
           /\ request # NoRequest
           /\ outcome.step # "received"

\* the members of the enumeration of a union, and its registry
EnumOf(union) ==
    CASE union = "LifecycleRequest" -> LifecyclePhase
      [] union = "ConfigValue" -> ConfigValueType
      [] union = "ConfigSetting" -> ConfigSettingType

Registry(union, member) ==
    CASE union = "LifecycleRequest" -> REQUEST_BY_PHASE(member)
      [] union = "ConfigValue" -> CONFIG_VALUE_BY_TYPE(member)
      [] union = "ConfigSetting" -> CONFIG_SETTING_BY_TYPE(member)

UnknownMessage(union) ==
    CASE union = "LifecycleRequest" -> "Unknown lifecycle phase"
      [] union = "ConfigValue" -> "Unknown config value type"
      [] union = "ConfigSetting" -> "Unknown config setting type"

\* C30: a record decoded through a union (LifecycleRequest, ConfigValue,
\* ConfigSetting) is of the class its own discriminator names: the class is the
\* registry entry of the discriminator read from the input and the record
\* holds that discriminator; every registry gives each member of its
\* enumeration a class of its own; and a document without the discriminator
\* is rejected as one with an unknown discriminator is.
C30_VariantAgrees ==
    codec_pc = "structured" =>
        LET union == codec_in.union
            key == DiscriminatorKey(union)
        IN  /\ codec_out.ok =>
                  /\ HasKey(codec_mid, key)
                  /\ Lookup(codec_mid, key) \in EnumOf(union)
                  /\ codec_out.value.cls = Registry(union, Lookup(codec_mid, key))
                  /\ codec_out.value.tag = Lookup(codec_mid, key)
                  /\ UnionOf(codec_out.value.cls) = union
            /\ codec_in.tampering \in {"missing", "unknown"} =>
                  codec_out = Raises(PyException("ValueError", UnknownMessage(union), <<>>))
            /\ \A t1, t2 \in EnumOf(union) : Registry(union, t1) = Registry(union, t2) => t1 = t2

\* a document whose valueType is STRING is decoded as a StringConfigValue
\* holding that valueType
C30_Witness ==
    /\ codec_pc = "structured"
    /\ codec_in = [union |-> "ConfigValue", tampering |-> "none"]
    /\ Lookup(codec_mid, DiscriminatorKey("ConfigValue")) = "STRING"
    /\ HasKey(codec_mid, <<"s", "t", "r", "i", "n", "g", "C", "o", "n", "f", "i", "g">>)
    /\ codec_out = Returns(Variant("StringConfigValue", "STRING", NoTime))

====
